---- MODULE Spec2Model ----
(***************************************************************************)
(* Model of the yokatlas scraper: the page-by-page crawl of               *)
(* YokatlasUniversityScraper (src/main.py).  One crawl run is one call of  *)
(* the constructor followed by one call of scrape_all_pages.  The browser  *)
(* (document provider) and the file system are the environment: every      *)
(* provider call either succeeds or fails in one of the ways the code      *)
(* distinguishes, chosen nondeterministically.                             *)
(***************************************************************************)
EXTENDS Integers, Sequences, FiniteSets, TLC

(* ------------------------------ bounds -------------------------------- *)
\* most rows the provider returns for one page
MaxRows == 2
\* number of pages of the document (the last one has no next-page control)
MaxPages == 2
\* most records in the persisted partition found at start-up
MaxPersisted == 1
\* number of distinct valid programme codes the document can show
NumCodes == 2
\* most characters of a quota text handed to normalize_quota_status
MaxQuotaLen == 2
\* most characters of an attribute token handed to normalize_attributes
MaxTokenLen == 5
\* most font spans in a cell handed to extract_colored_values
MaxSpans == 2
\* most files found by the glob of finalize.py
MaxFiles == 2

(* ----------------------------- constants ------------------------------ *)
\* valid programme codes (numeric, at least 8 digits); NoCode: none found
Codes == {10000000 + i : i \in 1..NumCodes}
NoCode == 0
\* the score types: "say" stands for the general variant, "tyt" the reduced
ScoreTypes == {"say", "tyt"}
\* the score types in the order in which main runs them with --all-types
AllTypes == <<"say", "ea", "soz", "dil", "tyt">>
\* numbers of <td> cells a row can have
CellCounts == {10, 11, 12, 13}
\* the CSS selectors of strategy 3 of click_detailed_view
NumSelectors == 4

\* contents of the output file: no file, a JSON list of records, text that
\* json.load rejects or a list with an item without 'code' (corrupt), or a
\* file whose reading raises any other exception (unreadable)
Absent == [kind |-> "absent", recs |-> <<>>]
Corrupt == [kind |-> "corrupt", recs |-> <<>>]
Unreadable == [kind |-> "unreadable", recs |-> <<>>]
ListFile(s) == [kind |-> "list", recs |-> s]

\* keys of the dictionary built by parse_row
RecordFields ==
  {"code", "university_name", "name", "attributes", "city",
   "university_type", "scholarship_type", "education_type", "total_quota",
   "quota_status", "filled_quota", "max_rank", "min_score", "score_type"}

VARIABLES
  score_type,     \* self.score_type
  file,           \* content of self.output_file on disk
  data,           \* self.data
  scraped_codes,  \* self.scraped_codes
  driver,         \* self.driver: "none", "open" or "quit"
  pc,             \* position of the run
  page_num,       \* page_num of scrape_all_pages
  test_scrape,    \* test_scrape of scrape_all_pages (-1: not assigned)
  view_success,   \* detailed_view_success: "none", "true", "false"
  in_trial,       \* scrape_current_page was called for the trial scrape
  rows_left,      \* rows of the current page not yet processed
  new_records,    \* new_records of scrape_current_page
  selector,       \* index of the selector strategy 3 tries next
  \* ---- history of the run ----
  file0,          \* file content when the scraper was constructed
  data_loaded,    \* self.data right after load_existing_data
  doc_shown,      \* the valid codes the document has shown so far: "none",
                  \* "covered" (all are codes of data_loaded), "uncovered"
  nsaves,         \* calls of save_data
  save_ok,        \* outcome of the last save_data: "none", "ok", "failed"
  loop_scrapes,   \* calls of scrape_current_page made by the page loop
  trial_scrapes,  \* calls of scrape_current_page made as trial scrape
  size_outcome,   \* outcome of set_page_length_to_100 until the next step
  load_outcome,   \* outcome of the initial load, "none" before it
  strategies,     \* strategies attempted by the running click_detailed_view
  view_calls,     \* calls of click_detailed_view
  wait_outcome,   \* outcome of the wait of the running click_detailed_view
  nhas,           \* calls of has_next_page
  has_outcome,    \* outcome of the last has_next_page
  ngo,            \* calls of go_to_next_page
  go_outcome,     \* outcome of the last go_to_next_page
  last_kind,      \* way the last parse_row of the running
                  \* scrape_current_page ended (kind of ParseRow)
  data_pre,       \* self.data before the trial scrape
  codes_pre,      \* self.scraped_codes before the trial scrape
  exit,           \* how scrape_all_pages ended, "none" while running
  last_valid,     \* the row of the last parse_row was complete, raised
                  \* nowhere and carried a code not yet in scraped_codes
  page_fails,     \* a row of the running scrape_current_page gave no record
  \* ---- main of main.py ----
  queue,          \* score types main still has to run after this one
  override,       \* args.output is given: every scraper writes one file
  \* ---- finalize.py ----
  entry,          \* the entry handed to process_entry
  processed,      \* what process_entry returned for it
  reprocessed,    \* what process_entry returned for that result
  \* ---- main of finalize.py ----
  json_files,     \* content of the files found by glob, in glob's order
  file_idx,       \* files the for loop has taken so far
  entry_idx,      \* entries of the current file processed so far
  all_data,       \* all_data
  data_json,      \* content of data.json on disk
  fpc,            \* position of main of finalize.py
  \* ---- extract_colored_values on its own ----
  cell,           \* the font spans of the cell handed to it
  slots,          \* the list it returned
  \* ---- the row loop body on one given row ----
  given_row,      \* the row handed to parse_row
  outcomes        \* what the successive calls of parse_row on it returned

cvars == <<score_type, file, data, scraped_codes, driver, pc, page_num,
           test_scrape, view_success, in_trial, rows_left, new_records,
           selector>>
hvars == <<file0, data_loaded, doc_shown, nsaves, save_ok,
           loop_scrapes, trial_scrapes, size_outcome, load_outcome,
           strategies, view_calls, wait_outcome, nhas, has_outcome, ngo,
           go_outcome, last_kind, data_pre, codes_pre, exit, last_valid,
           page_fails>>
mvars == <<queue, override>>
nvars == <<entry, processed, reprocessed>>
fvars == <<json_files, file_idx, entry_idx, all_data, data_json, fpc>>
evars == <<cell, slots>>
rvars == <<given_row, outcomes>>
vars == <<cvars, hvars, mvars, nvars, fvars, evars, rvars>>

(* ------------------------------ helpers ------------------------------- *)
IsList(f) == f.kind = "list"

\* {item['code'] for item in self.data}
CodesOf(s) == {s[i].code : i \in 1..Len(s)}

DistinctCodes(s) ==
  \A i, j \in 1..Len(s) : i # j => s[i].code # s[j].code

\* a complete record as parse_row builds it
FullRecord(c, st) == [code |-> c, score_type |-> st, keys |-> RecordFields]

\* the partitions a crawl of score type st can find: written by save_data
PersistedLists(st) ==
  {s \in UNION {[1..n -> {FullRecord(c, st) : c \in Codes}] : n \in 0..MaxPersisted} :
     DistinctCodes(s)}

(* ------------------------- parse_row (pure part) ---------------------- *)
\* min_columns of parse_row
MinColumns(st) == IF st = "tyt" THEN 11 ELSE 12

\* the order in which parse_row computes the values of the dictionary
ExtractOrder(st) ==
  IF st = "tyt"
  THEN <<"code", "university_name", "name", "attributes", "city",
         "university_type", "scholarship_type", "education_type",
         "total_quota", "quota_status", "filled_quota", "min_score",
         "max_rank", "score_type">>
  ELSE <<"code", "university_name", "name", "attributes", "city",
         "university_type", "scholarship_type", "education_type",
         "total_quota", "quota_status", "filled_quota", "max_rank",
         "min_score", "score_type">>

\* index i of the cells[i] a value is read from; -1: read from no cell
CellIndex(st, f) ==
  CASE f = "code" -> 1
    [] f = "university_name" -> 2
    [] f \in {"name", "attributes"} -> 3
    [] f = "city" -> 4
    [] f = "university_type" -> 5
    [] f = "scholarship_type" -> 6
    [] f = "education_type" -> 7
    [] f = "total_quota" -> 8
    [] f = "quota_status" -> IF st = "tyt" THEN -1 ELSE 9
    [] f = "filled_quota" -> IF st = "tyt" THEN 9 ELSE 10
    [] f = "min_score" -> IF st = "tyt" THEN 10 ELSE 12
    [] f = "max_rank" -> 11
    [] OTHER -> -1

\* the points of parse_row at which a provider call on the row raises:
\* row.find_elements, or the read of the cell of one of these values
FailPoints == {"none", "cells", "code", "max_rank"}

\* a row as the provider presents it: its number of cells, the code that
\* the code cell yields (NoCode: none) and the point where a provider call
\* on it raises ("none": it never does)
Rows == [ncells : CellCounts, code : Codes \cup {NoCode}, fail : FailPoints]

\* computing value f from the row raises: the provider call does, or
\* cells[i] is out of range
Raises(row, st, f) ==
  /\ CellIndex(st, f) >= 0
  /\ \/ row.fail = f
     \/ CellIndex(st, f) >= row.ncells

\* position in ExtractOrder of the first value that raises, 0 when none
FirstRaise(row, st) ==
  LET bad == {i \in 1..Len(ExtractOrder(st)) : Raises(row, st, ExtractOrder(st)[i])}
  IN IF bad = {} THEN 0 ELSE CHOOSE i \in bad : \A j \in bad : i <= j

\* a row that parse_row can read to the end: no provider call on it
\* raises, the code cell yields a code and every cell index that parse_row
\* reads exists
ValidRow(row, st) ==
  /\ row.fail = "none"
  /\ row.code # NoCode
  /\ \A i \in 1..Len(ExtractOrder(st)) :
       CellIndex(st, ExtractOrder(st)[i]) < row.ncells

\* no entry: process_entry has not been called
NoEntry == [code |-> NoCode]

\* main of finalize.py is not run
MergeIdle ==
  /\ json_files = <<>>
  /\ file_idx = 0
  /\ entry_idx = 0
  /\ all_data = <<>>
  /\ data_json = Absent
  /\ fpc = "idle"

\* no list of slots: extract_colored_values has not been called
NoSlots == <<<<"none">>>>
CellIdle == cell = <<>> /\ slots = NoSlots

\* no row: the row loop body is not run on a given row
NoRow == [ncells |-> 0, code |-> NoCode, fail |-> "none"]
RowIdle == given_row = NoRow /\ outcomes = <<>>

\* None, the result of parse_row that is not a dictionary
NoRecord == [code |-> NoCode, score_type |-> "", keys |-> {}]

\* the ways parse_row ends without a dictionary: too few cells, no code in
\* the code cell, code already scraped, the except branch
Short == [kind |-> "short", rec |-> NoRecord]
NoCodeFound == [kind |-> "nocode", rec |-> NoRecord]
Seen == [kind |-> "seen", rec |-> NoRecord]
Error == [kind |-> "error", rec |-> NoRecord]

\* parse_row without the test of lines 365-367
ParseRow_NoSeenCheck(row, scraped, st) ==
  IF row.fail = "cells" THEN Error
  ELSE IF row.ncells < MinColumns(st) THEN Short
  ELSE IF Raises(row, st, "code") THEN Error
  ELSE IF row.code = NoCode THEN NoCodeFound
  ELSE IF FirstRaise(row, st) # 0 THEN Error
  ELSE [kind |-> "record", rec |-> FullRecord(row.code, st)]

\* parse_row whose except branch returns the values computed so far
ParseRow_Partial(row, scraped, st) ==
  IF row.fail = "cells" THEN Error
  ELSE IF row.ncells < MinColumns(st) THEN Short
  ELSE IF Raises(row, st, "code") THEN Error
  ELSE IF row.code = NoCode THEN NoCodeFound
  ELSE IF row.code \in scraped THEN Seen
  ELSE IF FirstRaise(row, st) # 0
       THEN [kind |-> "error",
             rec |-> [code |-> row.code, score_type |-> "",
                      keys |-> {ExtractOrder(st)[i] : i \in 1..(FirstRaise(row, st) - 1)}]]
  ELSE [kind |-> "record", rec |-> FullRecord(row.code, st)]

\* parse_row: the dictionary (kind "record") or None with the way it ended
ParseRow(row, scraped, st) ==
  IF row.fail = "cells" THEN Error
  ELSE IF row.ncells < MinColumns(st) THEN Short
  ELSE IF Raises(row, st, "code") THEN Error
  ELSE IF row.code = NoCode THEN NoCodeFound
  ELSE IF row.code \in scraped THEN Seen
  ELSE IF FirstRaise(row, st) # 0 THEN Error
  ELSE [kind |-> "record", rec |-> FullRecord(row.code, st)]
(* ------------------------------ the run ------------------------------- *)
\* the scraper object before __init__ loads the file (lines 20-41)
Init ==
  /\ score_type \in ScoreTypes
  /\ file \in {Absent, Corrupt, Unreadable}
             \cup {ListFile(s) : s \in PersistedLists(score_type)}
  /\ data = <<>>
  /\ scraped_codes = {}
  /\ driver = "none"
  /\ pc = "new"
  /\ page_num = 0
  /\ test_scrape = -1
  /\ view_success = "none"
  /\ in_trial = FALSE
  /\ rows_left = 0
  /\ new_records = 0
  /\ selector = 1
  /\ file0 = file
  /\ data_loaded = <<>>
  /\ doc_shown = "none"
  /\ nsaves = 0
  /\ save_ok = "none"
  /\ loop_scrapes = 0
  /\ trial_scrapes = 0
  /\ size_outcome = "none"
  /\ load_outcome = "none"
  /\ strategies = <<>>
  /\ view_calls = 0
  /\ wait_outcome = "none"
  /\ nhas = 0
  /\ has_outcome = "none"
  /\ ngo = 0
  /\ go_outcome = "none"
  /\ last_kind = "none"
  /\ data_pre = <<>>
  /\ codes_pre = {}
  /\ exit = "none"
  /\ last_valid = FALSE
  /\ page_fails = FALSE
  /\ queue = <<>>
  /\ override = FALSE
  /\ entry = NoEntry
  /\ processed = NoEntry
  /\ reprocessed = NoEntry
  /\ CellIdle
  /\ RowIdle
  /\ MergeIdle

\* load_existing_data that does not fill scraped_codes
LoadExistingData_NoSeed ==
  /\ pc = "new"
  /\ IF file = Unreadable
     THEN /\ pc' = "crashed"
          /\ exit' = "raised"
          /\ UNCHANGED <<data, scraped_codes>>
     ELSE /\ pc' = "setup"
          /\ exit' = exit
          /\ data' = IF IsList(file) THEN file.recs ELSE <<>>
          /\ scraped_codes' = {}
  /\ data_loaded' = data'
  /\ UNCHANGED <<score_type, file, driver, page_num, test_scrape,
                 view_success, in_trial, rows_left, new_records, selector,
                 file0, doc_shown, nsaves, save_ok, loop_scrapes,
                 trial_scrapes, size_outcome, load_outcome, strategies,
                 view_calls, wait_outcome, nhas, has_outcome, ngo,
                 go_outcome, last_kind, data_pre, codes_pre, last_valid,
                 page_fails, queue, override, entry, processed,
                 reprocessed, json_files, file_idx, entry_idx, all_data,
                 data_json, fpc, cell, slots, given_row, outcomes>>

\* load_existing_data, called by __init__
LoadExistingData ==
  /\ pc = "new"
  /\ IF file = Unreadable
     THEN \* an exception other than JSONDecodeError, KeyError leaves __init__
          /\ pc' = "crashed"
          /\ exit' = "raised"
          /\ UNCHANGED <<data, scraped_codes>>
     ELSE /\ pc' = "setup"
          /\ exit' = exit
          /\ data' = IF IsList(file) THEN file.recs ELSE <<>>
          /\ scraped_codes' = IF IsList(file) THEN CodesOf(file.recs) ELSE {}
  /\ data_loaded' = data'
  /\ UNCHANGED <<score_type, file, driver, page_num, test_scrape,
                 view_success, in_trial, rows_left, new_records, selector,
                 file0, doc_shown, nsaves, save_ok, loop_scrapes,
                 trial_scrapes, size_outcome, load_outcome, strategies,
                 view_calls, wait_outcome, nhas, has_outcome, ngo,
                 go_outcome, last_kind, data_pre, codes_pre, last_valid,
                 page_fails, queue, override, entry, processed,
                 reprocessed, json_files, file_idx, entry_idx, all_data,
                 data_json, fpc, cell, slots, given_row, outcomes>>

\* setup_driver (first statement of the try of scrape_all_pages)
SetupDriver ==
  /\ pc = "setup"
  /\ \E o \in {"ok", "no_driver", "late_error"} :
       CASE o = "ok" -> driver' = "open" /\ pc' = "load" /\ exit' = exit
         \* webdriver.Chrome raises: self.driver stays None
         [] o = "no_driver" ->
              driver' = driver /\ pc' = "finally" /\ exit' = "error"
         \* self.driver is assigned and a timeout setting raises
         [] o = "late_error" ->
              driver' = "open" /\ pc' = "finally" /\ exit' = "error"
  /\ UNCHANGED <<score_type, file, data, scraped_codes, page_num,
                 test_scrape, view_success, in_trial, rows_left,
                 new_records, selector, file0, data_loaded, doc_shown,
                 nsaves, save_ok, loop_scrapes, trial_scrapes,
                 size_outcome, load_outcome, strategies, view_calls,
                 wait_outcome, nhas, has_outcome, ngo, go_outcome,
                 last_kind, data_pre, codes_pre, last_valid, page_fails,
                 queue, override, entry, processed, reprocessed,
                 json_files, file_idx, entry_idx, all_data, data_json, fpc,
                 cell, slots, given_row, outcomes>>

\* the initial load whose timeout is not fatal
LoadInitialPage_Continue ==
  /\ pc = "load"
  /\ \E o \in {"ok", "timeout", "error"} :
       /\ load_outcome' = o
       /\ IF o \in {"ok", "timeout"}
          THEN pc' = "size" /\ exit' = exit
          ELSE pc' = "finally" /\ exit' = "error"
  /\ UNCHANGED <<score_type, file, data, scraped_codes, driver, page_num,
                 test_scrape, view_success, in_trial, rows_left,
                 new_records, selector, file0, data_loaded, doc_shown,
                 nsaves, save_ok, loop_scrapes, trial_scrapes,
                 size_outcome, strategies, view_calls, wait_outcome, nhas,
                 has_outcome, ngo, go_outcome, last_kind, data_pre,
                 codes_pre, last_valid, page_fails, queue, override, entry,
                 processed, reprocessed, json_files, file_idx, entry_idx,
                 all_data, data_json, fpc, cell, slots, given_row,
                 outcomes>>

\* driver.get and the bounded wait for the listing container
LoadInitialPage ==
  /\ pc = "load"
  /\ \E o \in {"ok", "timeout", "error"} :
       /\ load_outcome' = o
       /\ IF o = "ok"
          THEN pc' = "size" /\ exit' = exit
          ELSE pc' = "finally" /\ exit' = "error"
  /\ UNCHANGED <<score_type, file, data, scraped_codes, driver, page_num,
                 test_scrape, view_success, in_trial, rows_left,
                 new_records, selector, file0, data_loaded, doc_shown,
                 nsaves, save_ok, loop_scrapes, trial_scrapes,
                 size_outcome, strategies, view_calls, wait_outcome, nhas,
                 has_outcome, ngo, go_outcome, last_kind, data_pre,
                 codes_pre, last_valid, page_fails, queue, override, entry,
                 processed, reprocessed, json_files, file_idx, entry_idx,
                 all_data, data_json, fpc, cell, slots, given_row,
                 outcomes>>

\* set_page_length_to_100 and the test of its result: only TimeoutException
\* is caught; select_by_value raising leaves the function
SetPageLength ==
  /\ pc = "size"
  /\ \E o \in {"ok", "timeout", "select_error"} :
       /\ size_outcome' = o
       /\ IF o = "select_error"
          THEN pc' = "finally" /\ exit' = "error"
          ELSE pc' = "view_wait" /\ exit' = exit
  /\ UNCHANGED <<score_type, file, data, scraped_codes, driver, page_num,
                 test_scrape, view_success, in_trial, rows_left,
                 new_records, selector, file0, data_loaded, doc_shown,
                 nsaves, save_ok, loop_scrapes, trial_scrapes,
                 load_outcome, strategies, view_calls, wait_outcome, nhas,
                 has_outcome, ngo, go_outcome, last_kind, data_pre,
                 codes_pre, last_valid, page_fails, queue, override, entry,
                 processed, reprocessed, json_files, file_idx, entry_idx,
                 all_data, data_json, fpc, cell, slots, given_row,
                 outcomes>>

\* click_detailed_view: the wait for the container inside the outer try
ViewWait ==
  /\ pc = "view_wait"
  /\ view_calls' = view_calls + 1
  /\ size_outcome' = "none"
  /\ \E ok \in BOOLEAN :
       IF ok
       THEN pc' = "view_s1" /\ view_success' = view_success /\ wait_outcome' = "ok"
       ELSE pc' = "view_ret" /\ view_success' = "false" /\ wait_outcome' = "failed"
  /\ UNCHANGED <<score_type, file, data, scraped_codes, driver, page_num,
                 test_scrape, in_trial, rows_left, new_records, selector,
                 file0, data_loaded, doc_shown, nsaves, save_ok,
                 loop_scrapes, trial_scrapes, load_outcome, strategies,
                 nhas, has_outcome, ngo, go_outcome, last_kind, data_pre,
                 codes_pre, exit, last_valid, page_fails, queue, override,
                 entry, processed, reprocessed, json_files, file_idx,
                 entry_idx, all_data, data_json, fpc, cell, slots,
                 given_row, outcomes>>

\* strategy 1 whose failure goes on with strategy 3
Strategy1_Skip ==
  /\ pc = "view_s1"
  /\ strategies' = Append(strategies, 1)
  /\ \E ok \in BOOLEAN :
       IF ok
       THEN pc' = "view_ret" /\ view_success' = "true"
       ELSE pc' = "view_s3" /\ view_success' = view_success
  /\ UNCHANGED <<score_type, file, data, scraped_codes, driver, page_num,
                 test_scrape, in_trial, rows_left, new_records, selector,
                 file0, data_loaded, doc_shown, nsaves, save_ok,
                 loop_scrapes, trial_scrapes, size_outcome, load_outcome,
                 view_calls, wait_outcome, nhas, has_outcome, ngo,
                 go_outcome, last_kind, data_pre, codes_pre, exit,
                 last_valid, page_fails, queue, override, entry, processed,
                 reprocessed, json_files, file_idx, entry_idx, all_data,
                 data_json, fpc, cell, slots, given_row, outcomes>>

\* strategy 1: wait until clickable, scroll, click
Strategy1 ==
  /\ pc = "view_s1"
  /\ strategies' = Append(strategies, 1)
  /\ \E ok \in BOOLEAN :
       IF ok
       THEN pc' = "view_ret" /\ view_success' = "true"
       ELSE pc' = "view_s2" /\ view_success' = view_success
  /\ UNCHANGED <<score_type, file, data, scraped_codes, driver, page_num,
                 test_scrape, in_trial, rows_left, new_records, selector,
                 file0, data_loaded, doc_shown, nsaves, save_ok,
                 loop_scrapes, trial_scrapes, size_outcome, load_outcome,
                 view_calls, wait_outcome, nhas, has_outcome, ngo,
                 go_outcome, last_kind, data_pre, codes_pre, exit,
                 last_valid, page_fails, queue, override, entry, processed,
                 reprocessed, json_files, file_idx, entry_idx, all_data,
                 data_json, fpc, cell, slots, given_row, outcomes>>

\* strategy 2: click through execute_script
Strategy2 ==
  /\ pc = "view_s2"
  /\ strategies' = Append(strategies, 2)
  /\ \E ok \in BOOLEAN :
       IF ok
       THEN pc' = "view_ret" /\ view_success' = "true" /\ selector' = selector
       ELSE pc' = "view_s3" /\ view_success' = view_success /\ selector' = 1
  /\ UNCHANGED <<score_type, file, data, scraped_codes, driver, page_num,
                 test_scrape, in_trial, rows_left, new_records, file0,
                 data_loaded, doc_shown, nsaves, save_ok, loop_scrapes,
                 trial_scrapes, size_outcome, load_outcome, view_calls,
                 wait_outcome, nhas, has_outcome, ngo, go_outcome,
                 last_kind, data_pre, codes_pre, exit, last_valid,
                 page_fails, queue, override, entry, processed,
                 reprocessed, json_files, file_idx, entry_idx, all_data,
                 data_json, fpc, cell, slots, given_row, outcomes>>

\* strategy 3: one pass of the loop over the alternative selectors
Strategy3 ==
  /\ pc = "view_s3"
  /\ strategies' = IF selector = 1 THEN Append(strategies, 3) ELSE strategies
  /\ \E ok \in BOOLEAN :
       IF ok
       THEN pc' = "view_ret" /\ view_success' = "true" /\ selector' = selector
       ELSE /\ view_success' = view_success
            /\ IF selector < NumSelectors
               THEN pc' = "view_s3" /\ selector' = selector + 1
               ELSE pc' = "view_s4" /\ selector' = selector
  /\ UNCHANGED <<score_type, file, data, scraped_codes, driver, page_num,
                 test_scrape, in_trial, rows_left, new_records, file0,
                 data_loaded, doc_shown, nsaves, save_ok, loop_scrapes,
                 trial_scrapes, size_outcome, load_outcome, view_calls,
                 wait_outcome, nhas, has_outcome, ngo, go_outcome,
                 last_kind, data_pre, codes_pre, exit, last_valid,
                 page_fails, queue, override, entry, processed,
                 reprocessed, json_files, file_idx, entry_idx, all_data,
                 data_json, fpc, cell, slots, given_row, outcomes>>

\* strategy 4: more than 10 cells in the first data row
Strategy4 ==
  /\ pc = "view_s4"
  /\ strategies' = Append(strategies, 4)
  /\ \E detailed \in BOOLEAN :
       /\ pc' = "view_ret"
       /\ view_success' = IF detailed THEN "true" ELSE "false"
  /\ UNCHANGED <<score_type, file, data, scraped_codes, driver, page_num,
                 test_scrape, in_trial, rows_left, new_records, selector,
                 file0, data_loaded, doc_shown, nsaves, save_ok,
                 loop_scrapes, trial_scrapes, size_outcome, load_outcome,
                 view_calls, wait_outcome, nhas, has_outcome, ngo,
                 go_outcome, last_kind, data_pre, codes_pre, exit,
                 last_valid, page_fails, queue, override, entry, processed,
                 reprocessed, json_files, file_idx, entry_idx, all_data,
                 data_json, fpc, cell, slots, given_row, outcomes>>

\* click_detailed_view returns (its locals end) and detailed_view_success
\* is tested: the page loop, or the trial scrape
ViewReturn ==
  /\ pc = "view_ret"
  /\ pc' = "scrape_start"
  /\ strategies' = <<>>
  /\ selector' = 1
  /\ wait_outcome' = "none"
  /\ IF view_success = "true"
     THEN /\ in_trial' = FALSE
          /\ page_num' = 1
          /\ UNCHANGED <<data_pre, codes_pre>>
     ELSE /\ in_trial' = TRUE
          /\ page_num' = page_num
          /\ data_pre' = data
          /\ codes_pre' = scraped_codes
  /\ UNCHANGED <<score_type, file, data, scraped_codes, driver,
                 test_scrape, view_success, rows_left, new_records, file0,
                 data_loaded, doc_shown, nsaves, save_ok, loop_scrapes,
                 trial_scrapes, size_outcome, load_outcome, view_calls,
                 nhas, has_outcome, ngo, go_outcome, last_kind, exit,
                 last_valid, page_fails, queue, override, entry, processed,
                 reprocessed, json_files, file_idx, entry_idx, all_data,
                 data_json, fpc, cell, slots, given_row, outcomes>>

\* scrape_current_page up to the row loop: the rows of the page are found,
\* or the wait or a lookup raises and the function returns 0 (modelled as
\* a return of new_records = 0 with no row to process)
ScrapeStart ==
  /\ pc = "scrape_start"
  /\ pc' = "scrape_rows"
  /\ new_records' = 0
  /\ page_fails' = FALSE
  /\ \E found \in BOOLEAN :
       IF found
       THEN \E n \in 0..MaxRows : rows_left' = n
       ELSE rows_left' = 0
  /\ UNCHANGED <<score_type, file, data, scraped_codes, driver, page_num,
                 test_scrape, view_success, in_trial, selector, file0,
                 data_loaded, doc_shown, nsaves, save_ok, loop_scrapes,
                 trial_scrapes, size_outcome, load_outcome, strategies,
                 view_calls, wait_outcome, nhas, has_outcome, ngo,
                 go_outcome, last_kind, data_pre, codes_pre, exit,
                 last_valid, queue, override, entry, processed,
                 reprocessed, json_files, file_idx, entry_idx, all_data,
                 data_json, fpc, cell, slots, given_row, outcomes>>

\* a row loop that puts a new record in front of the result set
ScrapeRow_Prepend ==
  /\ pc = "scrape_rows"
  /\ rows_left > 0
  /\ rows_left' = rows_left - 1
  /\ pc' = pc
  /\ \E row \in Rows :
       LET r == ParseRow(row, scraped_codes, score_type)
       IN /\ last_kind' = r.kind
          /\ last_valid' = (ValidRow(row, score_type)
                            /\ row.code \notin scraped_codes)
          /\ page_fails' = (page_fails \/ r.rec = NoRecord)
          /\ doc_shown' = IF row.code = NoCode THEN doc_shown
                          ELSE IF row.code \in CodesOf(data_loaded)
                                  /\ doc_shown # "uncovered"
                               THEN "covered"
                               ELSE "uncovered"
          /\ IF r.rec # NoRecord
             THEN /\ data' = <<r.rec>> \o data
                  /\ scraped_codes' = scraped_codes \cup {r.rec.code}
                  /\ new_records' = new_records + 1
             ELSE UNCHANGED <<data, scraped_codes, new_records>>
  /\ UNCHANGED <<score_type, file, driver, page_num, test_scrape,
                 view_success, in_trial, selector, file0, data_loaded,
                 nsaves, save_ok, loop_scrapes, trial_scrapes,
                 size_outcome, load_outcome, strategies, view_calls,
                 wait_outcome, nhas, has_outcome, ngo, go_outcome,
                 data_pre, codes_pre, exit, queue, override, entry,
                 processed, reprocessed, json_files, file_idx, entry_idx,
                 all_data, data_json, fpc, cell, slots, given_row,
                 outcomes>>

\* a row loop that a row whose extraction raises ends
ScrapeRow_AbortOnError ==
  /\ pc = "scrape_rows"
  /\ rows_left > 0
  /\ pc' = pc
  /\ \E row \in Rows :
       LET r == ParseRow(row, scraped_codes, score_type)
       IN /\ last_kind' = r.kind
          /\ rows_left' = IF r.kind = "error" THEN 0 ELSE rows_left - 1
          /\ last_valid' = (ValidRow(row, score_type)
                            /\ row.code \notin scraped_codes)
          /\ page_fails' = (page_fails \/ r.rec = NoRecord)
          /\ doc_shown' = IF row.code = NoCode THEN doc_shown
                          ELSE IF row.code \in CodesOf(data_loaded)
                                  /\ doc_shown # "uncovered"
                               THEN "covered"
                               ELSE "uncovered"
          /\ IF r.rec # NoRecord
             THEN /\ data' = Append(data, r.rec)
                  /\ scraped_codes' = scraped_codes \cup {r.rec.code}
                  /\ new_records' = new_records + 1
             ELSE UNCHANGED <<data, scraped_codes, new_records>>
  /\ UNCHANGED <<score_type, file, driver, page_num, test_scrape,
                 view_success, in_trial, selector, file0, data_loaded,
                 nsaves, save_ok, loop_scrapes, trial_scrapes,
                 size_outcome, load_outcome, strategies, view_calls,
                 wait_outcome, nhas, has_outcome, ngo, go_outcome,
                 data_pre, codes_pre, exit, queue, override, entry,
                 processed, reprocessed, json_files, file_idx, entry_idx,
                 all_data, data_json, fpc, cell, slots, given_row,
                 outcomes>>

\* one pass of the row loop of scrape_current_page
ScrapeRow ==
  /\ pc = "scrape_rows"
  /\ rows_left > 0
  /\ rows_left' = rows_left - 1
  /\ pc' = pc
  /\ \E row \in Rows :
       LET r == ParseRow(row, scraped_codes, score_type)
       IN /\ last_kind' = r.kind
          /\ last_valid' = (ValidRow(row, score_type)
                            /\ row.code \notin scraped_codes)
          /\ page_fails' = (page_fails \/ r.rec = NoRecord)
          /\ doc_shown' = IF row.code = NoCode THEN doc_shown
                          ELSE IF row.code \in CodesOf(data_loaded)
                                  /\ doc_shown # "uncovered"
                               THEN "covered"
                               ELSE "uncovered"
          /\ IF r.rec # NoRecord
             THEN /\ data' = Append(data, r.rec)
                  /\ scraped_codes' = scraped_codes \cup {r.rec.code}
                  /\ new_records' = new_records + 1
             ELSE UNCHANGED <<data, scraped_codes, new_records>>
  /\ UNCHANGED <<score_type, file, driver, page_num, test_scrape,
                 view_success, in_trial, selector, file0, data_loaded,
                 nsaves, save_ok, loop_scrapes, trial_scrapes,
                 size_outcome, load_outcome, strategies, view_calls,
                 wait_outcome, nhas, has_outcome, ngo, go_outcome,
                 data_pre, codes_pre, exit, queue, override, entry,
                 processed, reprocessed, json_files, file_idx, entry_idx,
                 all_data, data_json, fpc, cell, slots, given_row,
                 outcomes>>

\* the page loop that saves only a page with new records
ScrapeReturn_SaveIfNew ==
  /\ pc = "scrape_rows"
  /\ rows_left = 0
  /\ last_kind' = "none"
  /\ last_valid' = FALSE
  /\ page_fails' = FALSE
  /\ IF in_trial
     THEN /\ test_scrape' = new_records
          /\ trial_scrapes' = trial_scrapes + 1
          /\ loop_scrapes' = loop_scrapes
          /\ pc' = "trial_check"
     ELSE /\ test_scrape' = test_scrape
          /\ trial_scrapes' = trial_scrapes
          /\ loop_scrapes' = loop_scrapes + 1
          /\ pc' = IF new_records > 0 THEN "save" ELSE "has_next"
  /\ UNCHANGED <<score_type, file, data, scraped_codes, driver, page_num,
                 view_success, in_trial, rows_left, new_records, selector,
                 file0, data_loaded, doc_shown, nsaves, save_ok,
                 size_outcome, load_outcome, strategies, view_calls,
                 wait_outcome, nhas, has_outcome, ngo, go_outcome,
                 data_pre, codes_pre, exit, queue, override, entry,
                 processed, reprocessed, json_files, file_idx, entry_idx,
                 all_data, data_json, fpc, cell, slots, given_row,
                 outcomes>>

\* scrape_current_page returns new_records to its caller
ScrapeReturn ==
  /\ pc = "scrape_rows"
  /\ rows_left = 0
  /\ last_kind' = "none"
  /\ last_valid' = FALSE
  /\ page_fails' = FALSE
  /\ IF in_trial
     THEN /\ test_scrape' = new_records
          /\ trial_scrapes' = trial_scrapes + 1
          /\ loop_scrapes' = loop_scrapes
          /\ pc' = "trial_check"
     ELSE /\ test_scrape' = test_scrape
          /\ trial_scrapes' = trial_scrapes
          /\ loop_scrapes' = loop_scrapes + 1
          /\ pc' = "save"
  /\ UNCHANGED <<score_type, file, data, scraped_codes, driver, page_num,
                 view_success, in_trial, rows_left, new_records, selector,
                 file0, data_loaded, doc_shown, nsaves, save_ok,
                 size_outcome, load_outcome, strategies, view_calls,
                 wait_outcome, nhas, has_outcome, ngo, go_outcome,
                 data_pre, codes_pre, exit, queue, override, entry,
                 processed, reprocessed, json_files, file_idx, entry_idx,
                 all_data, data_json, fpc, cell, slots, given_row,
                 outcomes>>

\* the test of test_scrape that keeps the trial records
TrialCheck_NoReset ==
  /\ pc = "trial_check"
  /\ IF test_scrape = 0
     THEN /\ pc' = "finally"
          /\ exit' = "degraded_stop"
          /\ UNCHANGED <<data, scraped_codes, in_trial, page_num>>
     ELSE /\ data' = data
          /\ scraped_codes' = scraped_codes
          /\ in_trial' = FALSE
          /\ page_num' = 1
          /\ pc' = "scrape_start"
          /\ exit' = exit
  /\ UNCHANGED <<score_type, file, driver, test_scrape, view_success,
                 rows_left, new_records, selector, file0, data_loaded,
                 doc_shown, nsaves, save_ok, loop_scrapes, trial_scrapes,
                 size_outcome, load_outcome, strategies, view_calls,
                 wait_outcome, nhas, has_outcome, ngo, go_outcome,
                 last_kind, data_pre, codes_pre, last_valid, page_fails,
                 queue, override, entry, processed, reprocessed,
                 json_files, file_idx, entry_idx, all_data, data_json, fpc,
                 cell, slots, given_row, outcomes>>

\* the test of test_scrape that discards the trial records and keeps
\* their codes in the seen set
TrialCheck_KeepCodes ==
  /\ pc = "trial_check"
  /\ IF test_scrape = 0
     THEN /\ pc' = "finally"
          /\ exit' = "degraded_stop"
          /\ UNCHANGED <<data, scraped_codes, in_trial, page_num>>
     ELSE /\ data' = SubSeq(data, 1, Len(data) - test_scrape)
          /\ scraped_codes' = scraped_codes
          /\ in_trial' = FALSE
          /\ page_num' = 1
          /\ pc' = "scrape_start"
          /\ exit' = exit
  /\ UNCHANGED <<score_type, file, driver, test_scrape, view_success,
                 rows_left, new_records, selector, file0, data_loaded,
                 doc_shown, nsaves, save_ok, loop_scrapes, trial_scrapes,
                 size_outcome, load_outcome, strategies, view_calls,
                 wait_outcome, nhas, has_outcome, ngo, go_outcome,
                 last_kind, data_pre, codes_pre, last_valid, page_fails,
                 queue, override, entry, processed, reprocessed,
                 json_files, file_idx, entry_idx, all_data, data_json, fpc,
                 cell, slots, given_row, outcomes>>

\* the test of test_scrape that discards the last trial record only
TrialCheck_DropOne ==
  /\ pc = "trial_check"
  /\ IF test_scrape = 0
     THEN /\ pc' = "finally"
          /\ exit' = "degraded_stop"
          /\ UNCHANGED <<data, scraped_codes, in_trial, page_num>>
     ELSE /\ data' = SubSeq(data, 1, Len(data) - 1)
          /\ scraped_codes' = CodesOf(data')
          /\ in_trial' = FALSE
          /\ page_num' = 1
          /\ pc' = "scrape_start"
          /\ exit' = exit
  /\ UNCHANGED <<score_type, file, driver, test_scrape, view_success,
                 rows_left, new_records, selector, file0, data_loaded,
                 doc_shown, nsaves, save_ok, loop_scrapes, trial_scrapes,
                 size_outcome, load_outcome, strategies, view_calls,
                 wait_outcome, nhas, has_outcome, ngo, go_outcome,
                 last_kind, data_pre, codes_pre, last_valid, page_fails,
                 queue, override, entry, processed, reprocessed,
                 json_files, file_idx, entry_idx, all_data, data_json, fpc,
                 cell, slots, given_row, outcomes>>

\* the test of test_scrape: stop, or discard the trial records
TrialCheck ==
  /\ pc = "trial_check"
  /\ IF test_scrape = 0
     THEN /\ pc' = "finally"
          /\ exit' = "degraded_stop"
          /\ UNCHANGED <<data, scraped_codes, in_trial, page_num>>
     ELSE /\ data' = SubSeq(data, 1, Len(data) - test_scrape)
          /\ scraped_codes' = CodesOf(data')
          /\ in_trial' = FALSE
          /\ page_num' = 1
          /\ pc' = "scrape_start"
          /\ exit' = exit
  /\ UNCHANGED <<score_type, file, driver, test_scrape, view_success,
                 rows_left, new_records, selector, file0, data_loaded,
                 doc_shown, nsaves, save_ok, loop_scrapes, trial_scrapes,
                 size_outcome, load_outcome, strategies, view_calls,
                 wait_outcome, nhas, has_outcome, ngo, go_outcome,
                 last_kind, data_pre, codes_pre, last_valid, page_fails,
                 queue, override, entry, processed, reprocessed,
                 json_files, file_idx, entry_idx, all_data, data_json, fpc,
                 cell, slots, given_row, outcomes>>

\* save_data: the whole of self.data is written; a failure is caught and
\* leaves the old file (open failed) or a truncated one (the dump failed).
\* new_records is not read after the print that precedes the call.
SaveData ==
  /\ pc = "save"
  /\ pc' = "has_next"
  /\ nsaves' = nsaves + 1
  /\ new_records' = 0
  /\ \E ok \in BOOLEAN :
       IF ok
       THEN file' = ListFile(data) /\ save_ok' = "ok"
       ELSE file' \in {file, Corrupt} /\ save_ok' = "failed"
  /\ UNCHANGED <<score_type, data, scraped_codes, driver, page_num,
                 test_scrape, view_success, in_trial, rows_left, selector,
                 file0, data_loaded, doc_shown, loop_scrapes,
                 trial_scrapes, size_outcome, load_outcome, strategies,
                 view_calls, wait_outcome, nhas, has_outcome, ngo,
                 go_outcome, last_kind, data_pre, codes_pre, exit,
                 last_valid, page_fails, queue, override, entry, processed,
                 reprocessed, json_files, file_idx, entry_idx, all_data,
                 data_json, fpc, cell, slots, given_row, outcomes>>

\* has_next_page and the test of its result
HasNextPage ==
  /\ pc = "has_next"
  /\ nhas' = nhas + 1
  /\ \E o \in {"true", "false", "error"} :
       /\ has_outcome' = o
       /\ CASE o = "true" -> page_num < MaxPages /\ pc' = "go_next" /\ exit' = exit
            [] o = "false" -> pc' = "finally" /\ exit' = "completed"
            [] o = "error" -> pc' = "finally" /\ exit' = "error"
  /\ UNCHANGED <<score_type, file, data, scraped_codes, driver, page_num,
                 test_scrape, view_success, in_trial, rows_left,
                 new_records, selector, file0, data_loaded, doc_shown,
                 nsaves, save_ok, loop_scrapes, trial_scrapes,
                 size_outcome, load_outcome, strategies, view_calls,
                 wait_outcome, ngo, go_outcome, last_kind, data_pre,
                 codes_pre, last_valid, page_fails, queue, override, entry,
                 processed, reprocessed, json_files, file_idx, entry_idx,
                 all_data, data_json, fpc, cell, slots, given_row,
                 outcomes>>

\* the page loop without the break after go_to_next_page fails
GoToNextPage_NoBreak ==
  /\ pc = "go_next"
  /\ ngo' = ngo + 1
  /\ \E o \in {"ok", "false", "error"} :
       /\ go_outcome' = o
       /\ CASE o = "ok" ->
                 pc' = "scrape_start" /\ page_num' = page_num + 1 /\ exit' = exit
            [] o = "false" ->
                 pc' = "scrape_start" /\ page_num' = page_num + 1 /\ exit' = exit
            [] o = "error" ->
                 pc' = "finally" /\ page_num' = page_num /\ exit' = "error"
  /\ UNCHANGED <<score_type, file, data, scraped_codes, driver,
                 test_scrape, view_success, in_trial, rows_left,
                 new_records, selector, file0, data_loaded, doc_shown,
                 nsaves, save_ok, loop_scrapes, trial_scrapes,
                 size_outcome, load_outcome, strategies, view_calls,
                 wait_outcome, nhas, has_outcome, last_kind, data_pre,
                 codes_pre, last_valid, page_fails, queue, override, entry,
                 processed, reprocessed, json_files, file_idx, entry_idx,
                 all_data, data_json, fpc, cell, slots, given_row,
                 outcomes>>

\* go_to_next_page and the test of its result
GoToNextPage ==
  /\ pc = "go_next"
  /\ ngo' = ngo + 1
  /\ \E o \in {"ok", "false", "error"} :
       /\ go_outcome' = o
       /\ CASE o = "ok" ->
                 pc' = "scrape_start" /\ page_num' = page_num + 1 /\ exit' = exit
            [] o = "false" ->
                 pc' = "finally" /\ page_num' = page_num /\ exit' = "nav_failed"
            [] o = "error" ->
                 pc' = "finally" /\ page_num' = page_num /\ exit' = "error"
  /\ UNCHANGED <<score_type, file, data, scraped_codes, driver,
                 test_scrape, view_success, in_trial, rows_left,
                 new_records, selector, file0, data_loaded, doc_shown,
                 nsaves, save_ok, loop_scrapes, trial_scrapes,
                 size_outcome, load_outcome, strategies, view_calls,
                 wait_outcome, nhas, has_outcome, last_kind, data_pre,
                 codes_pre, last_valid, page_fails, queue, override, entry,
                 processed, reprocessed, json_files, file_idx, entry_idx,
                 all_data, data_json, fpc, cell, slots, given_row,
                 outcomes>>

\* a finally clause that quits the driver only after a normal end
Finally_QuitOnSuccess ==
  /\ pc = "finally"
  /\ pc' = "done"
  /\ driver' = IF driver = "open" /\ exit # "error" THEN "quit" ELSE driver
  /\ UNCHANGED <<score_type, file, data, scraped_codes, page_num,
                 test_scrape, view_success, in_trial, rows_left,
                 new_records, selector, file0, data_loaded, doc_shown,
                 nsaves, save_ok, loop_scrapes, trial_scrapes,
                 size_outcome, load_outcome, strategies, view_calls,
                 wait_outcome, nhas, has_outcome, ngo, go_outcome,
                 last_kind, data_pre, codes_pre, exit, last_valid,
                 page_fails, queue, override, entry, processed,
                 reprocessed, json_files, file_idx, entry_idx, all_data,
                 data_json, fpc, cell, slots, given_row, outcomes>>

\* a finally clause that leaves the browser running
Finally_NoQuit ==
  /\ pc = "finally"
  /\ pc' = "done"
  /\ UNCHANGED <<score_type, file, data, scraped_codes, driver, page_num,
                 test_scrape, view_success, in_trial, rows_left,
                 new_records, selector, file0, data_loaded, doc_shown,
                 nsaves, save_ok, loop_scrapes, trial_scrapes,
                 size_outcome, load_outcome, strategies, view_calls,
                 wait_outcome, nhas, has_outcome, ngo, go_outcome,
                 last_kind, data_pre, codes_pre, exit, last_valid,
                 page_fails, queue, override, entry, processed,
                 reprocessed, json_files, file_idx, entry_idx, all_data,
                 data_json, fpc, cell, slots, given_row, outcomes>>

\* the finally clause of scrape_all_pages
Finally ==
  /\ pc = "finally"
  /\ pc' = "done"
  /\ driver' = IF driver = "open" THEN "quit" ELSE driver
  /\ UNCHANGED <<score_type, file, data, scraped_codes, page_num,
                 test_scrape, view_success, in_trial, rows_left,
                 new_records, selector, file0, data_loaded, doc_shown,
                 nsaves, save_ok, loop_scrapes, trial_scrapes,
                 size_outcome, load_outcome, strategies, view_calls,
                 wait_outcome, nhas, has_outcome, ngo, go_outcome,
                 last_kind, data_pre, codes_pre, exit, last_valid,
                 page_fails, queue, override, entry, processed,
                 reprocessed, json_files, file_idx, entry_idx, all_data,
                 data_json, fpc, cell, slots, given_row, outcomes>>

\* the fields of a scraper object as __init__ sets them, and the record
\* of a run that has not begun
FreshScraper ==
  /\ data = <<>>
  /\ scraped_codes = {}
  /\ driver = "none"
  /\ pc = "new"
  /\ page_num = 0
  /\ test_scrape = -1
  /\ view_success = "none"
  /\ in_trial = FALSE
  /\ rows_left = 0
  /\ new_records = 0
  /\ selector = 1
  /\ data_loaded = <<>>
  /\ doc_shown = "none"
  /\ nsaves = 0
  /\ save_ok = "none"
  /\ loop_scrapes = 0
  /\ trial_scrapes = 0
  /\ size_outcome = "none"
  /\ load_outcome = "none"
  /\ strategies = <<>>
  /\ view_calls = 0
  /\ wait_outcome = "none"
  /\ nhas = 0
  /\ has_outcome = "none"
  /\ ngo = 0
  /\ go_outcome = "none"
  /\ last_kind = "none"
  /\ data_pre = <<>>
  /\ codes_pre = {}
  /\ exit = "none"
  /\ last_valid = FALSE
  /\ page_fails = FALSE

\* main with --all-types: the first scraper object before it loads its
\* file; args.output is given or not
BatchInit ==
  /\ score_type = Head(AllTypes)
  /\ queue = Tail(AllTypes)
  /\ override \in BOOLEAN
  /\ file \in {Absent, Corrupt, Unreadable}
             \cup {ListFile(s) : s \in PersistedLists(score_type)}
  /\ file0 = file
  /\ entry = NoEntry
  /\ processed = NoEntry
  /\ reprocessed = NoEntry
  /\ CellIdle
  /\ RowIdle
  /\ MergeIdle
  /\ FreshScraper

\* the for loop of main: scrape_all_pages of one score type has returned
\* and the scraper of the next score type is constructed; with args.output
\* it is given the same output file, without it the file of its own score
\* type
StartNextCrawl ==
  /\ pc = "done"
  /\ queue # <<>>
  /\ score_type' = Head(queue)
  /\ queue' = Tail(queue)
  /\ IF override
     THEN file' = file
     ELSE file' \in {Absent, Corrupt, Unreadable}
                    \cup {ListFile(s) : s \in PersistedLists(Head(queue))}
  /\ file0' = file'
  /\ data' = <<>>
  /\ scraped_codes' = {}
  /\ driver' = "none"
  /\ pc' = "new"
  /\ page_num' = 0
  /\ test_scrape' = -1
  /\ view_success' = "none"
  /\ in_trial' = FALSE
  /\ rows_left' = 0
  /\ new_records' = 0
  /\ selector' = 1
  /\ data_loaded' = <<>>
  /\ doc_shown' = "none"
  /\ nsaves' = 0
  /\ save_ok' = "none"
  /\ loop_scrapes' = 0
  /\ trial_scrapes' = 0
  /\ size_outcome' = "none"
  /\ load_outcome' = "none"
  /\ strategies' = <<>>
  /\ view_calls' = 0
  /\ wait_outcome' = "none"
  /\ nhas' = 0
  /\ has_outcome' = "none"
  /\ ngo' = 0
  /\ go_outcome' = "none"
  /\ last_kind' = "none"
  /\ data_pre' = <<>>
  /\ codes_pre' = {}
  /\ exit' = "none"
  /\ last_valid' = FALSE
  /\ page_fails' = FALSE
  /\ UNCHANGED <<override, entry, processed, reprocessed, json_files,
                 file_idx, entry_idx, all_data, data_json, fpc, cell,
                 slots, given_row, outcomes>>

Next ==
  \/ LoadExistingData
  \/ SetupDriver
  \/ LoadInitialPage
  \/ SetPageLength
  \/ ViewWait
  \/ Strategy1
  \/ Strategy2
  \/ Strategy3
  \/ Strategy4
  \/ ViewReturn
  \/ ScrapeStart
  \/ ScrapeRow
  \/ ScrapeReturn
  \/ TrialCheck
  \/ SaveData
  \/ HasNextPage
  \/ GoToNextPage
  \/ Finally

Spec == Init /\ [][Next]_vars

\* the scraper object before __init__ loads a file that is absent, not
\* loadable, or holds one record
FairInit ==
  /\ Init
  /\ file \in {Absent, Corrupt, Unreadable,
               ListFile(<<FullRecord(10000001, score_type)>>)}

\* a crawl run whose pending step is eventually taken: every wait of the
\* code has a time limit and every call returns or raises
FairSpec == FairInit /\ [][Next]_vars /\ WF_vars(Next)

BatchNext ==
  \/ Next
  \/ StartNextCrawl

BatchSpec == BatchInit /\ [][BatchNext]_vars


(* ---------------------------- finalize.py ----------------------------- *)
\* A string is modelled as the sequence of its characters.

\* all strings over alphabet A of length at most n
Strs(A, n) == UNION {[1..k -> A] : k \in 0..n}

\* the status texts; "i" stands for the dotless i that ends the second
Doldu == <<"D", "o", "l", "d", "u">>
Dolmadi == <<"D", "o", "l", "m", "a", "d", "i">>

\* the decimal digits that occur in the modelled quota texts
Digits == {"1", "2"}
DigitVal(c) == IF c = "1" THEN 1 ELSE 2

\* s.endswith(c) and s.startswith(p)
EndsWith(s, c) == s # <<>> /\ s[Len(s)] = c
StartsWith(s, p) == Len(s) >= Len(p) /\ SubSeq(s, 1, Len(p)) = p

\* s.rstrip(c): every trailing c is removed
RECURSIVE RStrip(_, _)
RStrip(s, c) ==
  IF s # <<>> /\ s[Len(s)] = c THEN RStrip(SubSeq(s, 1, Len(s) - 1), c)
  ELSE s

\* c in s
Has(s, c) == \E i \in 1..Len(s) : s[i] = c

\* s.split(c): the parts of s between the occurrences of c
RECURSIVE Split(_, _)
Split(s, c) ==
  IF ~Has(s, c) THEN <<s>>
  ELSE LET i == CHOOSE k \in 1..Len(s) :
                  s[k] = c /\ \A j \in 1..(k - 1) : s[j] # c
       IN <<SubSeq(s, 1, i - 1)>> \o Split(SubSeq(s, i + 1, Len(s)), c)

\* c.join(parts)
RECURSIVE Join(_, _)
Join(parts, c) ==
  IF parts = <<>> THEN <<>>
  ELSE IF Len(parts) = 1 THEN parts[1]
  ELSE parts[1] \o <<c>> \o Join(Tail(parts), c)

\* s.strip(), the blank being the only white space of the modelled texts
RECURSIVE LStrip(_)
LStrip(s) == IF s # <<>> /\ s[1] = " " THEN LStrip(Tail(s)) ELSE s
Strip(s) == RStrip(LStrip(s), " ")

\* s.replace(c, '')
RECURSIVE Remove(_, _)
Remove(s, c) ==
  IF s = <<>> THEN <<>>
  ELSE (IF s[1] = c THEN <<>> ELSE <<s[1]>>) \o Remove(Tail(s), c)

\* int(s) does not raise ValueError: the modelled texts hold no sign, blank
\* or underscore next to a digit, so s must be a non-empty run of digits
IsInt(s) == s # <<>> /\ \A i \in 1..Len(s) : s[i] \in Digits

\* int(s) for such a run
RECURSIVE IntVal(_)
IntVal(s) ==
  IF s = <<>> THEN 0
  ELSE 10 * IntVal(SubSeq(s, 1, Len(s) - 1)) + DigitVal(s[Len(s)])

\* normalize_quota_status in which the numeric rule does not need
\* total_quota
normalize_quota_status_NoGuard(quota_status, max_rank, total_quota, filled_quota) ==
  IF quota_status # <<>> /\ EndsWith(quota_status, "#")
  THEN RStrip(quota_status, "#")
  ELSE IF quota_status = <<>> /\ Len(max_rank) > 0 /\ max_rank[1] = Dolmadi
  THEN Dolmadi
  ELSE IF quota_status = <<>> /\ filled_quota # <<>>
  THEN IF total_quota = <<>> THEN Doldu
       ELSE LET total == Split(total_quota[1], "+")[1]
                filled_str == filled_quota[1]
                filled == Split(filled_str, "+")[1]
            IN IF ~IsInt(total) THEN Doldu
               ELSE IF StartsWith(filled_str, Doldu) THEN Doldu
               ELSE IF ~IsInt(filled) THEN Doldu
               ELSE IF IntVal(filled) >= IntVal(total) THEN Doldu
               ELSE Dolmadi
  ELSE quota_status

\* normalize_quota_status whose except branch returns the raw value
normalize_quota_status_NoDefault(quota_status, max_rank, total_quota, filled_quota) ==
  IF quota_status # <<>> /\ EndsWith(quota_status, "#")
  THEN RStrip(quota_status, "#")
  ELSE IF quota_status = <<>> /\ Len(max_rank) > 0 /\ max_rank[1] = Dolmadi
  THEN Dolmadi
  ELSE IF quota_status = <<>> /\ total_quota # <<>> /\ filled_quota # <<>>
  THEN LET total == Split(total_quota[1], "+")[1]
           filled_str == filled_quota[1]
           filled == Split(filled_str, "+")[1]
       IN IF ~IsInt(total) THEN quota_status
          ELSE IF StartsWith(filled_str, Doldu) THEN Doldu
          ELSE IF ~IsInt(filled) THEN quota_status
          ELSE IF IntVal(filled) >= IntVal(total) THEN Doldu
          ELSE Dolmadi
  ELSE quota_status

\* normalize_quota_status that removes one trailing '#' only
normalize_quota_status_StripOne(quota_status, max_rank, total_quota, filled_quota) ==
  IF quota_status # <<>> /\ EndsWith(quota_status, "#")
  THEN SubSeq(quota_status, 1, Len(quota_status) - 1)
  ELSE IF quota_status = <<>> /\ Len(max_rank) > 0 /\ max_rank[1] = Dolmadi
  THEN Dolmadi
  ELSE IF quota_status = <<>> /\ total_quota # <<>> /\ filled_quota # <<>>
  THEN LET total == Split(total_quota[1], "+")[1]
           filled_str == filled_quota[1]
           filled == Split(filled_str, "+")[1]
       IN \* int(total) raising ValueError is caught: line 34
          IF ~IsInt(total) THEN Doldu
          ELSE IF StartsWith(filled_str, Doldu) THEN Doldu
          ELSE IF ~IsInt(filled) THEN Doldu
          ELSE IF IntVal(filled) >= IntVal(total) THEN Doldu
          ELSE Dolmadi
  ELSE quota_status

\* normalize_quota_status
normalize_quota_status(quota_status, max_rank, total_quota, filled_quota) ==
  IF quota_status # <<>> /\ EndsWith(quota_status, "#")
  THEN RStrip(quota_status, "#")
  ELSE IF quota_status = <<>> /\ Len(max_rank) > 0 /\ max_rank[1] = Dolmadi
  THEN Dolmadi
  ELSE IF quota_status = <<>> /\ total_quota # <<>> /\ filled_quota # <<>>
  THEN LET total == Split(total_quota[1], "+")[1]
           filled_str == filled_quota[1]
           filled == Split(filled_str, "+")[1]
       IN \* int(total) raising ValueError is caught: line 34
          IF ~IsInt(total) THEN Doldu
          ELSE IF StartsWith(filled_str, Doldu) THEN Doldu
          ELSE IF ~IsInt(filled) THEN Doldu
          ELSE IF IntVal(filled) >= IntVal(total) THEN Doldu
          ELSE Dolmadi
  ELSE quota_status

\* the body of the for loop of normalize_attributes that lets the parts of
\* a token untrimmed
NormalizeToken_NoStrip(attr) ==
  IF Has(attr, ")") /\ Has(attr, "(")
  THEN LET parts == Split(attr, ")")
       IN IF Len(parts) >= 2
          THEN LET first_part == parts[1]
                   remaining == Join(Tail(parts), ")")
               IN (IF first_part # <<>> THEN <<first_part>> ELSE <<>>)
                  \o (IF Has(remaining, "(")
                      THEN LET middle_and_last == Split(remaining, "(")
                               middle_part == middle_and_last[1]
                               last_part == Remove(middle_and_last[2], ")")
                           IN (IF middle_part # <<>>
                               THEN <<middle_part>> ELSE <<>>)
                              \o (IF Len(middle_and_last) > 1
                                     /\ last_part # <<>>
                                  THEN <<last_part>> ELSE <<>>)
                      ELSE IF remaining # <<>>
                           THEN <<remaining>> ELSE <<>>)
          ELSE <<attr>>
  ELSE <<attr>>

\* the body of the for loop of normalize_attributes: what one token adds
\* to the list normalized
NormalizeToken(attr) ==
  IF Has(attr, ")") /\ Has(attr, "(")
  THEN LET parts == Split(attr, ")")
       IN IF Len(parts) >= 2
          THEN LET first_part == Strip(parts[1])
                   remaining == Join(Tail(parts), ")")
               IN (IF first_part # <<>> THEN <<first_part>> ELSE <<>>)
                  \o (IF Has(remaining, "(")
                      THEN LET middle_and_last == Split(remaining, "(")
                               middle_part == Strip(middle_and_last[1])
                               last_part ==
                                 Strip(Remove(middle_and_last[2], ")"))
                           IN (IF middle_part # <<>>
                               THEN <<middle_part>> ELSE <<>>)
                              \o (IF Len(middle_and_last) > 1
                                     /\ last_part # <<>>
                                  THEN <<last_part>> ELSE <<>>)
                      ELSE IF Strip(remaining) # <<>>
                           THEN <<Strip(remaining)>> ELSE <<>>)
          ELSE <<attr>>
  ELSE <<attr>>

\* normalize_attributes
RECURSIVE normalize_attributes(_)
normalize_attributes(attributes) ==
  IF attributes = <<>> THEN <<>>
  ELSE NormalizeToken(Head(attributes))
       \o normalize_attributes(Tail(attributes))

\* entry.get(k, d)
Get(e, k, d) == IF k \in DOMAIN e THEN e[k] ELSE d

\* process_entry that also rewrites university_name
process_entry_Rename(e) ==
  [k \in DOMAIN e \cup {"quota_status"} |->
     IF k = "quota_status"
     THEN normalize_quota_status(Get(e, "quota_status", <<>>),
            Get(e, "max_rank", <<>>), Get(e, "total_quota", <<>>),
            Get(e, "filled_quota", <<>>))
     ELSE IF k = "attributes" THEN normalize_attributes(e[k])
     ELSE IF k = "university_name" THEN Strip(e[k])
     ELSE e[k]]

\* process_entry: the copy of the entry with quota_status set and, when
\* the entry has attributes, attributes replaced
process_entry(e) ==
  [k \in DOMAIN e \cup {"quota_status"} |->
     IF k = "quota_status"
     THEN normalize_quota_status(Get(e, "quota_status", <<>>),
            Get(e, "max_rank", <<>>), Get(e, "total_quota", <<>>),
            Get(e, "filled_quota", <<>>))
     ELSE IF k = "attributes" THEN normalize_attributes(e[k])
     ELSE e[k]]

\* an entry of a partition file with the fields the normalizer reads and
\* two of the fields it does not
Entry(c, n, qs, mr, tq, fq, at) ==
  [k \in {"code", "university_name", "quota_status", "max_rank",
          "total_quota", "filled_quota", "attributes"} |->
     CASE k = "code" -> c
       [] k = "university_name" -> n
       [] k = "quota_status" -> qs
       [] k = "max_rank" -> mr
       [] k = "total_quota" -> tq
       [] k = "filled_quota" -> fq
       [] k = "attributes" -> at]

\* entry e without the fields of K
Without(e, K) == [k \in DOMAIN e \ K |-> e[k]]

\* the lists with no slot or with one slot taken from T
Slots(T) == {<<>>} \cup {<<t>> : t \in T}

\* quota_status texts, and the texts of a slot of total_quota and of
\* filled_quota
RawTexts == {p \o s : p \in {<<>>, Doldu}, s \in Strs({"#", "x"}, MaxQuotaLen)}
QuotaTexts == Strs(Digits \cup {"+", "x"}, MaxQuotaLen)
FilledTexts ==
  QuotaTexts
  \cup {Doldu \o s : s \in Strs(Digits \cup {"+", "x"}, MaxQuotaLen - 1)}
MaxRanks == Slots({Dolmadi, Doldu, <<"1">>})

\* attribute tokens, and a token without parentheses
AttrTexts == Strs({"a", "b", "(", ")", " "}, MaxTokenLen)
PlainToken == <<"b", " ", "a">>

\* an attribute list with token t alone, after or before a token without
\* parentheses
AttrList(k, t) ==
  CASE k = 1 -> <<t>>
    [] k = 2 -> <<PlainToken, t>>
    [] k = 3 -> <<t, PlainToken>>

\* the entry has quota fields out of the modelled ones: an empty
\* quota_status with any combination of the three lists, or any
\* quota_status with some
QuotaEntry ==
  \/ \E mr \in MaxRanks, tq \in Slots(QuotaTexts), fq \in Slots(FilledTexts) :
       entry = Entry(10000001, <<"a">>, <<>>, mr, tq, fq, <<>>)
  \/ \E qs \in RawTexts, mr \in {<<>>, <<Dolmadi>>},
        tq \in {<<>>, <<<<"1">>>>}, fq \in {<<>>, <<<<"2">>>>, <<Doldu>>} :
       entry = Entry(10000001, <<"a">>, qs, mr, tq, fq, <<>>)

\* the entry has an attribute list out of the modelled ones
AttrEntry ==
  \E t \in AttrTexts, k \in 1..3 :
    entry = Entry(10000001, <<"a">>, Doldu, <<>>, <<>>, <<>>, AttrList(k, t))

\* the entry has any set of the fields that the normalizer reads
FrameEntry ==
  \E c \in Codes, qs \in {<<>>, Doldu \o <<"#">>},
     at \in {<<>>, <<<<"a", ")", "b", "(", "a">>>>},
     K \in SUBSET {"quota_status", "max_rank", "total_quota",
                   "filled_quota", "attributes"} :
    entry = Without(Entry(c, <<" ", "a">>, qs, <<>>, <<<<"2">>>>,
                          <<<<"1">>>>, at), K)

\* finalize.py before process_entry is called on an entry of a file
NormInit ==
  /\ QuotaEntry \/ AttrEntry \/ FrameEntry
  /\ processed = NoEntry
  /\ reprocessed = NoEntry
  /\ CellIdle
  /\ RowIdle
  /\ MergeIdle
  /\ score_type = "say"
  /\ file = Absent
  /\ file0 = file
  /\ queue = <<>>
  /\ override = FALSE
  /\ FreshScraper

\* main of finalize.py calls process_entry on the entry
ProcessEntry ==
  /\ processed = NoEntry
  /\ processed' = process_entry(entry)
  /\ UNCHANGED <<score_type, file, data, scraped_codes, driver, pc,
                 page_num, test_scrape, view_success, in_trial, rows_left,
                 new_records, selector, file0, data_loaded, doc_shown,
                 nsaves, save_ok, loop_scrapes, trial_scrapes,
                 size_outcome, load_outcome, strategies, view_calls,
                 wait_outcome, nhas, has_outcome, ngo, go_outcome,
                 last_kind, data_pre, codes_pre, exit, last_valid,
                 page_fails, queue, override, entry, reprocessed,
                 json_files, file_idx, entry_idx, all_data, data_json, fpc,
                 cell, slots, given_row, outcomes>>

\* process_entry called on the entry that process_entry returned
ProcessAgain ==
  /\ processed # NoEntry
  /\ reprocessed = NoEntry
  /\ reprocessed' = process_entry(processed)
  /\ UNCHANGED <<score_type, file, data, scraped_codes, driver, pc,
                 page_num, test_scrape, view_success, in_trial, rows_left,
                 new_records, selector, file0, data_loaded, doc_shown,
                 nsaves, save_ok, loop_scrapes, trial_scrapes,
                 size_outcome, load_outcome, strategies, view_calls,
                 wait_outcome, nhas, has_outcome, ngo, go_outcome,
                 last_kind, data_pre, codes_pre, exit, last_valid,
                 page_fails, queue, override, entry, processed, json_files,
                 file_idx, entry_idx, all_data, data_json, fpc, cell,
                 slots, given_row, outcomes>>

NormNext == ProcessEntry \/ ProcessAgain

NormSpec == NormInit /\ [][NormNext]_vars



(* ---------------- extract_colored_values on its own ------------------- *)
\* the colour keys in the order of the list colors of each branch
Colors(st) ==
  IF st = "tyt" THEN <<"red", "blue">>
  ELSE <<"red", "purple", "blue", "green">>

\* the texts of a font span: empty, a number, a number between blanks, a
\* number followed by a parenthesised detail, an opening parenthesis only
SpanTexts ==
  {<<>>, <<"8">>, <<" ", "8", " ">>, <<"8", "(", "6", ")">>, <<"(", "8">>}

\* a font span of the cell: its color attribute and its text; "black"
\* stands for every colour that is no key
Spans == [color : {"red", "purple", "blue", "green", "black"},
          text : SpanTexts]

\* get_text(strip=True) followed by the cut at the first '(' of a text
\* that holds '(' and ')'
CleanText(text) ==
  LET t == Strip(text)
  IN IF Has(t, "(") /\ Has(t, ")") THEN Split(t, "(")[1] ELSE t

\* soup.find('font', {'color': c}): the position of the first span of the
\* cell whose color is c, 0 for None
RECURSIVE FindFont(_, _, _)
FindFont(c, spans, i) ==
  IF i > Len(spans) THEN 0
  ELSE IF spans[i].color = c THEN i
  ELSE FindFont(c, spans, i + 1)

\* the loop over colors that appends nothing for a colour without span
RECURSIVE ExtractLoop_SkipMissing(_, _)
ExtractLoop_SkipMissing(spans, colors) ==
  IF colors = <<>> THEN <<>>
  ELSE LET font_tag == FindFont(Head(colors), spans, 1)
       IN (IF font_tag # 0 THEN <<CleanText(spans[font_tag].text)>>
           ELSE <<>>)
          \o ExtractLoop_SkipMissing(spans, Tail(colors))

\* the loop over colors: one value is appended for each colour
RECURSIVE ExtractLoop(_, _)
ExtractLoop(spans, colors) ==
  IF colors = <<>> THEN <<>>
  ELSE LET font_tag == FindFont(Head(colors), spans, 1)
       IN (IF font_tag # 0 THEN <<CleanText(spans[font_tag].text)>>
           ELSE <<<<>>>>)
          \o ExtractLoop(spans, Tail(colors))

\* extract_colored_values
extract_colored_values(spans, st) == ExtractLoop(spans, Colors(st))

\* a cell with up to MaxSpans font spans, before the call
CellInit ==
  /\ score_type \in ScoreTypes
  /\ \E n \in 0..MaxSpans : \E c \in [1..n -> Spans] : cell = c
  /\ slots = NoSlots
  /\ file = Absent
  /\ file0 = file
  /\ queue = <<>>
  /\ override = FALSE
  /\ entry = NoEntry
  /\ processed = NoEntry
  /\ reprocessed = NoEntry
  /\ RowIdle
  /\ MergeIdle
  /\ FreshScraper

\* the call of extract_colored_values on the cell
ExtractColoredValues ==
  /\ slots = NoSlots
  /\ slots' = extract_colored_values(cell, score_type)
  /\ UNCHANGED <<score_type, file, data, scraped_codes, driver, pc,
                 page_num, test_scrape, view_success, in_trial, rows_left,
                 new_records, selector, file0, data_loaded, doc_shown,
                 nsaves, save_ok, loop_scrapes, trial_scrapes,
                 size_outcome, load_outcome, strategies, view_calls,
                 wait_outcome, nhas, has_outcome, ngo, go_outcome,
                 last_kind, data_pre, codes_pre, exit, last_valid,
                 page_fails, queue, override, entry, processed,
                 reprocessed, json_files, file_idx, entry_idx, all_data,
                 data_json, fpc, cell, given_row, outcomes>>

CellNext == ExtractColoredValues

CellSpec == CellInit /\ [][CellNext]_vars



(* ------------------ the row loop body on a given row ------------------ *)
\* a scraper before __init__ loads the file, and a row that the provider
\* will hand to the row loop
RowInit ==
  /\ score_type \in ScoreTypes
  /\ file \in {Absent, Corrupt, Unreadable}
             \cup {ListFile(s) : s \in PersistedLists(score_type)}
  /\ file0 = file
  /\ given_row \in Rows
  /\ outcomes = <<>>
  /\ queue = <<>>
  /\ override = FALSE
  /\ entry = NoEntry
  /\ processed = NoEntry
  /\ reprocessed = NoEntry
  /\ CellIdle
  /\ MergeIdle
  /\ FreshScraper

\* the body of the row loop that does not add the code to scraped_codes
RowLoopBody_NoAdd ==
  /\ pc = "setup"
  /\ Len(outcomes) < 2
  /\ LET r == ParseRow(given_row, scraped_codes, score_type)
     IN /\ outcomes' = Append(outcomes, r)
        /\ IF r.rec # NoRecord
           THEN /\ data' = Append(data, r.rec)
                /\ scraped_codes' = scraped_codes
           ELSE UNCHANGED <<data, scraped_codes>>
  /\ UNCHANGED <<score_type, file, driver, pc, page_num, test_scrape,
                 view_success, in_trial, rows_left, new_records, selector,
                 file0, data_loaded, doc_shown, nsaves, save_ok,
                 loop_scrapes, trial_scrapes, size_outcome, load_outcome,
                 strategies, view_calls, wait_outcome, nhas, has_outcome,
                 ngo, go_outcome, last_kind, data_pre, codes_pre, exit,
                 last_valid, page_fails, queue, override, entry, processed,
                 reprocessed, json_files, file_idx, entry_idx, all_data,
                 data_json, fpc, cell, slots, given_row>>

\* the body of the row loop of scrape_current_page on the given row, run
\* by the constructed scraper: parse_row, and for a dictionary the append
\* to self.data and the add to self.scraped_codes
RowLoopBody ==
  /\ pc = "setup"
  /\ Len(outcomes) < 2
  /\ LET r == ParseRow(given_row, scraped_codes, score_type)
     IN /\ outcomes' = Append(outcomes, r)
        /\ IF r.rec # NoRecord
           THEN /\ data' = Append(data, r.rec)
                /\ scraped_codes' = scraped_codes \cup {r.rec.code}
           ELSE UNCHANGED <<data, scraped_codes>>
  /\ UNCHANGED <<score_type, file, driver, pc, page_num, test_scrape,
                 view_success, in_trial, rows_left, new_records, selector,
                 file0, data_loaded, doc_shown, nsaves, save_ok,
                 loop_scrapes, trial_scrapes, size_outcome, load_outcome,
                 strategies, view_calls, wait_outcome, nhas, has_outcome,
                 ngo, go_outcome, last_kind, data_pre, codes_pre, exit,
                 last_valid, page_fails, queue, override, entry, processed,
                 reprocessed, json_files, file_idx, entry_idx, all_data,
                 data_json, fpc, cell, slots, given_row>>

RowNext ==
  \/ LoadExistingData
  \/ RowLoopBody

RowSpec == RowInit /\ [][RowNext]_vars



(* ------------------------ finalize.py: main ---------------------------- *)
\* a file that json.load cannot load
Unloadable == <<[unloadable |-> TRUE]>>

\* an element of a file that is no JSON object: process_entry raises on it
\* (entry.copy() or entry.get does not exist)
ScalarEntry == [scalar |-> TRUE]
ProcessRaises(e) == e = ScalarEntry

\* two records as the scraper writes them
EntryA ==
  Entry(10000001, <<"a">>, Doldu \o <<"#">>, <<>>, <<>>, <<>>, <<>>)
EntryB ==
  Entry(10000002, <<"b">>, <<>>, <<>>, <<<<"2">>>>, <<<<"1">>>>,
        <<<<"a", ")", "b", "(", "a">>>>)

\* the contents of a file matched by 'universities_data_*.json'
FileContents ==
  {Unloadable, <<>>, <<EntryA>>, <<EntryA, EntryB>>, <<EntryB, EntryA>>,
   <<EntryA, ScalarEntry>>, <<ScalarEntry, EntryB>>}

\* main up to the glob
MergeInit ==
  /\ \E n \in 0..MaxFiles : \E fs \in [1..n -> FileContents] : json_files = fs
  /\ file_idx = 0
  /\ entry_idx = 0
  /\ all_data = <<>>
  /\ data_json = Absent
  /\ fpc = "glob"
  /\ entry = NoEntry
  /\ processed = NoEntry
  /\ reprocessed = NoEntry
  /\ CellIdle
  /\ RowIdle
  /\ score_type = "say"
  /\ file = Absent
  /\ file0 = file
  /\ queue = <<>>
  /\ override = FALSE
  /\ FreshScraper

\* if not json_files: return; otherwise all_data = [] and the loop starts
Glob ==
  /\ fpc = "glob"
  /\ fpc' = IF json_files = <<>> THEN "returned" ELSE "files"
  /\ UNCHANGED <<score_type, file, data, scraped_codes, driver, pc,
                 page_num, test_scrape, view_success, in_trial, rows_left,
                 new_records, selector, file0, data_loaded, doc_shown,
                 nsaves, save_ok, loop_scrapes, trial_scrapes,
                 size_outcome, load_outcome, strategies, view_calls,
                 wait_outcome, nhas, has_outcome, ngo, go_outcome,
                 last_kind, data_pre, codes_pre, exit, last_valid,
                 page_fails, queue, override, entry, processed,
                 reprocessed, json_files, file_idx, entry_idx, all_data,
                 data_json, cell, slots, given_row, outcomes>>

\* the for loop takes the next file and json.load reads it; when it raises,
\* except Exception continues with the next file
LoadFile ==
  /\ fpc = "files"
  /\ file_idx < Len(json_files)
  /\ file_idx' = file_idx + 1
  /\ entry_idx' = 0
  /\ fpc' = IF json_files[file_idx + 1] = Unloadable THEN "files"
            ELSE "entries"
  /\ UNCHANGED <<score_type, file, data, scraped_codes, driver, pc,
                 page_num, test_scrape, view_success, in_trial, rows_left,
                 new_records, selector, file0, data_loaded, doc_shown,
                 nsaves, save_ok, loop_scrapes, trial_scrapes,
                 size_outcome, load_outcome, strategies, view_calls,
                 wait_outcome, nhas, has_outcome, ngo, go_outcome,
                 last_kind, data_pre, codes_pre, exit, last_valid,
                 page_fails, queue, override, entry, processed,
                 reprocessed, json_files, all_data, data_json, cell, slots,
                 given_row, outcomes>>

\* the body of the entry loop: process_entry and all_data.append; when
\* process_entry raises, except Exception continues with the next file
ProcessFileEntry ==
  /\ fpc = "entries"
  /\ entry_idx < Len(json_files[file_idx])
  /\ LET e == json_files[file_idx][entry_idx + 1]
     IN  IF ProcessRaises(e)
         THEN /\ fpc' = "files"
              /\ UNCHANGED <<all_data, entry_idx>>
         ELSE /\ all_data' = Append(all_data, process_entry(e))
              /\ entry_idx' = entry_idx + 1
              /\ fpc' = "entries"
  /\ UNCHANGED <<score_type, file, data, scraped_codes, driver, pc,
                 page_num, test_scrape, view_success, in_trial, rows_left,
                 new_records, selector, file0, data_loaded, doc_shown,
                 nsaves, save_ok, loop_scrapes, trial_scrapes,
                 size_outcome, load_outcome, strategies, view_calls,
                 wait_outcome, nhas, has_outcome, ngo, go_outcome,
                 last_kind, data_pre, codes_pre, exit, last_valid,
                 page_fails, queue, override, entry, processed,
                 reprocessed, json_files, file_idx, data_json, cell, slots,
                 given_row, outcomes>>

\* the entry loop ends: the for loop goes on
EndOfFile ==
  /\ fpc = "entries"
  /\ entry_idx = Len(json_files[file_idx])
  /\ fpc' = "files"
  /\ UNCHANGED <<score_type, file, data, scraped_codes, driver, pc,
                 page_num, test_scrape, view_success, in_trial, rows_left,
                 new_records, selector, file0, data_loaded, doc_shown,
                 nsaves, save_ok, loop_scrapes, trial_scrapes,
                 size_outcome, load_outcome, strategies, view_calls,
                 wait_outcome, nhas, has_outcome, ngo, go_outcome,
                 last_kind, data_pre, codes_pre, exit, last_valid,
                 page_fails, queue, override, entry, processed,
                 reprocessed, json_files, file_idx, entry_idx, all_data,
                 data_json, cell, slots, given_row, outcomes>>

\* after the last file: data.json is opened and all_data dumped; an
\* exception is caught and reported
WriteData ==
  /\ fpc = "files"
  /\ file_idx = Len(json_files)
  /\ \/ /\ data_json' = ListFile(all_data)
        /\ fpc' = "written"
     \/ /\ data_json' \in {Absent, Corrupt}
        /\ fpc' = "write_failed"
  /\ UNCHANGED <<score_type, file, data, scraped_codes, driver, pc,
                 page_num, test_scrape, view_success, in_trial, rows_left,
                 new_records, selector, file0, data_loaded, doc_shown,
                 nsaves, save_ok, loop_scrapes, trial_scrapes,
                 size_outcome, load_outcome, strategies, view_calls,
                 wait_outcome, nhas, has_outcome, ngo, go_outcome,
                 last_kind, data_pre, codes_pre, exit, last_valid,
                 page_fails, queue, override, entry, processed,
                 reprocessed, json_files, file_idx, entry_idx, all_data,
                 cell, slots, given_row, outcomes>>

MergeNext == Glob \/ LoadFile \/ ProcessFileEntry \/ EndOfFile \/ WriteData

MergeSpec == MergeInit /\ [][MergeNext]_vars


(* ---------------------------- properties ------------------------------ *)
LoopPcs == {"save", "has_next", "go_next"}
EndPcs == {"finally", "done"}
AllFields(s) == \A i \in 1..Len(s) : s[i].keys = RecordFields

\* C1: no two records of self.data have the same code, and no two records
\* of a checkpoint written by save_data have the same code
C1_CodeUniqueness ==
  /\ DistinctCodes(data)
  /\ IsList(file) => DistinctCodes(file.recs)

\* a row with an already scraped code was met after a record was appended,
\* and a checkpoint was written
C1_Witness ==
  /\ last_kind = "seen"
  /\ Len(data) > Len(data_loaded)
  /\ nsaves >= 1
  /\ save_ok = "ok"

\* C2: when every valid code the document shows is in the partition loaded
\* at start, the crawl appends nothing and every checkpoint it writes is
\* the loaded partition
C2_Resumable ==
  (pc # "new" /\ doc_shown # "uncovered") =>
    /\ data = data_loaded
    /\ save_ok = "ok" => file = ListFile(data_loaded)
    /\ nsaves >= 1 => file \in {ListFile(data_loaded), file0, Corrupt}

\* a crawl over two pages that showed only codes of the loaded partition
C2_Witness ==
  /\ pc = "done"
  /\ IsList(file0)
  /\ doc_shown = "covered"
  /\ page_num = 2
  /\ nsaves = 2
  /\ save_ok = "ok"

\* C3: the page loop calls save_data once per page it scrapes, after the
\* rows of the page were appended and before has_next_page is called, and
\* a checkpoint holds every record appended so far
C3_CheckpointInv ==
  /\ pc = "save" => nsaves + 1 = loop_scrapes /\ loop_scrapes = page_num
  /\ pc \in {"has_next", "go_next"} =>
       nsaves = loop_scrapes /\ loop_scrapes = page_num
  /\ (pc \in {"scrape_start", "scrape_rows"} /\ ~in_trial) =>
       nsaves = loop_scrapes /\ loop_scrapes + 1 = page_num
  /\ pc \in EndPcs => nsaves = loop_scrapes
  /\ (save_ok = "ok" /\ pc \in {"has_next", "go_next"} \cup EndPcs) =>
       file = ListFile(data)
  /\ nhas <= nsaves

C3_CheckpointStep ==
  /\ nsaves' # nsaves =>
       /\ pc = "save" /\ rows_left = 0
       /\ nsaves' = nsaves + 1
       /\ save_ok' = "ok" => file' = ListFile(data)
  /\ nhas' # nhas => nsaves = page_num /\ nsaves = nhas + 1
  /\ file' # file => nsaves' = nsaves + 1

\* C3: one save_data per page of the loop, between the row loop and
\* has_next_page, each successful one writing all of self.data
C3_CheckpointEveryPage == []C3_CheckpointInv /\ [][C3_CheckpointStep]_vars

\* a two-page crawl ended after exactly two checkpoints
C3_Witness ==
  /\ pc = "done"
  /\ exit = "completed"
  /\ page_num = 2
  /\ loop_scrapes = 2
  /\ nsaves = 2
  /\ save_ok = "ok"
  /\ Len(data) = 2

\* C4: a row whose extraction raises changes neither self.data nor
\* self.scraped_codes nor the file, and every record of self.data and of a
\* checkpoint has all the keys of the dictionary
C4_FullRecords ==
  /\ AllFields(data)
  /\ IsList(file) => AllFields(file.recs)

C4_FailedRowStep ==
  (rows_left' < rows_left /\ last_kind' = "error") =>
    /\ data' = data
    /\ scraped_codes' = scraped_codes
    /\ file' = file

\* C4: only complete records are in self.data and in the file, and a row
\* whose extraction raises changes nothing
C4_NoPartialRecord == []C4_FullRecords /\ [][C4_FailedRowStep]_vars

\* the extraction of the last row of page 2 raised, after the page gave a
\* record and page 1 was saved
C4_Witness ==
  /\ last_kind = "error"
  /\ new_records >= 1
  /\ rows_left = 0
  /\ ~in_trial
  /\ save_ok = "ok"

\* C5: the page number grows only by a go_to_next_page that succeeded after
\* has_next_page found the control; without the control the crawl ends as
\* completed; when go_to_next_page fails the crawl ends without scraping
\* another page and a checkpoint written for the page holds every record
C5_NavInv ==
  /\ pc = "go_next" => has_outcome = "true"
  /\ has_outcome = "false" => pc \in EndPcs /\ exit = "completed"
  /\ has_outcome = "error" => pc \in EndPcs /\ exit = "error"
  /\ go_outcome \in {"false", "error"} =>
       /\ pc \in EndPcs
       /\ exit = (IF go_outcome = "false" THEN "nav_failed" ELSE "error")
       /\ loop_scrapes = page_num
       /\ nsaves = page_num
       /\ save_ok = "ok" => file = ListFile(data)

C5_NavStep ==
  /\ (page_num' # page_num /\ page_num >= 1) =>
       /\ page_num' = page_num + 1
       /\ pc = "go_next"
       /\ has_outcome = "true"
       /\ go_outcome' = "ok"
  /\ (loop_scrapes' # loop_scrapes /\ loop_scrapes >= 1) => go_outcome = "ok"

\* C5: pages advance only through a successful go_to_next_page; a missing
\* control or a failed go_to_next_page ends the crawl with the page saved
C5_PageAdvance == []C5_NavInv /\ [][C5_NavStep]_vars

\* go_to_next_page failed on page 1 of a crawl that had extracted a record
C5_Witness ==
  /\ pc = "done"
  /\ exit = "nav_failed"
  /\ page_num = 1
  /\ Len(data) > Len(data_loaded)
  /\ file = ListFile(data)

\* C6: when the listing container does not appear after the first load,
\* the crawl makes no page-size step, no view step, no scrape and no save,
\* the file is as it was, and the run is at its end
C6_LoadTimeoutFatal ==
  load_outcome = "timeout" =>
    /\ pc \in EndPcs
    /\ exit = "error"
    /\ size_outcome = "none"
    /\ view_calls = 0
    /\ trial_scrapes = 0 /\ loop_scrapes = 0
    /\ nsaves = 0
    /\ file = file0
    /\ data = data_loaded

\* a crawl over a non-empty partition ended by the timeout
C6_Witness ==
  /\ load_outcome = "timeout"
  /\ pc = "done"
  /\ driver = "quit"
  /\ IsList(file0)
  /\ Len(data_loaded) >= 1

\* C7 (as stated): after a save that failed, has_next_page is not called
\* and no further page is scraped, and the run ends by raising to its caller
C7_SaveFailureAborts ==
  save_ok = "failed" =>
    /\ nhas < nsaves
    /\ pc = "done" => exit = "raised"

\* C8 (as stated): when click_detailed_view fails the current page is
\* scraped once and go_to_next_page is never called
C8_SinglePageAfterViewFailure ==
  view_success = "false" =>
    /\ trial_scrapes + loop_scrapes <= 1
    /\ nhas = 0 /\ ngo = 0

\* C8 (amended): when click_detailed_view fails one trial scrape is made;
\* with no new record the run ends without a save and without a call of
\* has_next_page or go_to_next_page; otherwise the trial records are
\* discarded and the page loop runs from the current page
C8_TrialThenLoop ==
  /\ view_success = "true" => trial_scrapes = 0 /\ test_scrape = -1
  /\ (view_success = "false" /\ pc # "view_ret") =>
       /\ trial_scrapes <= 1
       /\ (pc = "trial_check" \/ exit = "degraded_stop") => in_trial
       /\ in_trial =>
            /\ pc \in {"scrape_start", "scrape_rows", "trial_check"} \cup EndPcs
            /\ nsaves = 0 /\ nhas = 0 /\ ngo = 0 /\ loop_scrapes = 0
            /\ file = file0
            /\ pc \in EndPcs =>
                 /\ exit = "degraded_stop"
                 /\ trial_scrapes = 1 /\ test_scrape = 0
                 /\ data = data_pre
       /\ ~in_trial =>
            /\ trial_scrapes = 1 /\ test_scrape > 0
            /\ (pc = "scrape_start" /\ page_num = 1) =>
                 data = data_pre /\ scraped_codes = codes_pre

\* after a failed click_detailed_view the crawl reached page 2
C8_Witness ==
  /\ view_success = "false"
  /\ pc = "done"
  /\ page_num = 2
  /\ ngo = 1
  /\ nsaves = 2

\* (part of C9) the strategies of click_detailed_view are attempted in the order
\* 1, 2, 3, 4, each after the ones before it failed, none after a success
C9_OrderInv ==
  /\ \A i \in 1..Len(strategies) : strategies[i] = i
  /\ Len(strategies) <= 4
  /\ pc = "view_s1" => strategies = <<>>
  /\ pc = "view_s2" => strategies = <<1>>
  /\ pc = "view_s3" => strategies \in {<<1, 2>>, <<1, 2, 3>>}
  /\ pc = "view_s4" => strategies = <<1, 2, 3>>
  /\ pc \in {"view_s1", "view_s2", "view_s3", "view_s4"} =>
       view_success = "none"
  /\ (pc = "view_ret" /\ view_success = "true") => Len(strategies) >= 1

C9_OrderStep ==
  (strategies' # strategies /\ pc # "view_ret") =>
    /\ view_success = "none"
    /\ strategies' = Append(strategies, Len(strategies) + 1)

\* C9 (as stated): the ordered chain, and click_detailed_view returns
\* False only after all four strategies were attempted
C9_FallbackChain ==
  /\ []C9_OrderInv
  /\ [][C9_OrderStep]_vars
  /\ []((pc = "view_ret" /\ view_success = "false") =>
          strategies = <<1, 2, 3, 4>>)

\* C9 (amended): the ordered chain, and click_detailed_view returns False
\* only after all four strategies were attempted, or, with no strategy
\* attempted, when its wait for the listing container failed
C9_FallbackChainOrWait ==
  /\ []C9_OrderInv
  /\ [][C9_OrderStep]_vars
  /\ []((pc = "view_ret" /\ view_success = "false") =>
          \/ wait_outcome = "ok" /\ strategies = <<1, 2, 3, 4>>
          \/ wait_outcome = "failed" /\ strategies = <<>>)
  /\ [](wait_outcome = "failed" => strategies = <<>> /\ view_success = "false")

\* all four strategies were attempted and failed
C9_Witness ==
  /\ pc = "view_ret"
  /\ view_success = "false"
  /\ wait_outcome = "ok"
  /\ strategies = <<1, 2, 3, 4>>

\* C10 (as stated): however set_page_length_to_100 fails, the crawl goes on
\* to click_detailed_view
C10_SizeFailureNonFatal ==
  (size_outcome \in {"timeout", "select_error"} /\ pc \in EndPcs) =>
    view_calls >= 1

\* the places of the run at which a method of the driver is called
DriverPcs == {"load", "size", "view_wait", "view_s1", "view_s2", "view_s3",
              "view_s4", "view_ret", "scrape_start", "scrape_rows",
              "trial_check", "save", "has_next", "go_next"}

\* the counters and outcomes that change when the driver is used
driver_use == <<load_outcome, view_calls, strategies, loop_scrapes,
                trial_scrapes, nhas, ngo, rows_left, size_outcome>>

\* C11 (state part): the driver is used only while it is open, and a run
\* that has ended has quit the driver it acquired
C11_ReleaseInv ==
  /\ pc \in DriverPcs => driver = "open"
  /\ pc = "done" => driver \in {"none", "quit"}
  /\ driver = "quit" => pc = "done"

\* C11 (step part): the driver is acquired by setup_driver only and quit
\* by the finally clause only, and after the quit nothing uses it
C11_ReleaseStep ==
  /\ driver' # driver =>
       \/ driver = "none" /\ driver' = "open" /\ pc = "setup"
       \/ driver = "open" /\ driver' = "quit" /\ pc = "finally"
  /\ driver = "quit" => driver' = "quit" /\ driver_use' = driver_use

\* C11: on every exit path of a crawl - normal completion, a fatal
\* failure, a degraded stop - a driver that was acquired is quit exactly
\* once at the end, and no driver operation follows the quit
C11_ProviderReleased == []C11_ReleaseInv /\ [][C11_ReleaseStep]_vars

\* a crawl that failed after the driver was assigned has ended with the
\* driver quit
C11_Witness == pc = "done" /\ driver = "quit" /\ exit = "error"

\* sequence s is an initial part of sequence t
IsPrefix(s, t) == Len(s) <= Len(t) /\ SubSeq(t, 1, Len(s)) = s

\* C12 (as stated): no page is scraped twice and the result set only
\* grows at its end, a failed click_detailed_view included
C12_ForwardOnly ==
  /\ [](trial_scrapes + loop_scrapes <= page_num \/ page_num = 0)
  /\ [][IsPrefix(data, data')]_vars

\* C12 (state part, amended): the page loop has scraped each page up to
\* the current one at most once, and at most one trial scrape preceded it
C12_PageInv ==
  /\ loop_scrapes <= page_num
  /\ pc \in {"save", "has_next", "go_next"} => loop_scrapes = page_num
  /\ trial_scrapes <= 1
  /\ trial_scrapes = 1 => view_success = "false"

\* C12 (step part, amended): pages are taken one after the other, the
\* n-th scrape of the loop is of page n, a row adds at most one record at
\* the end of the result set, and the only step that removes records is
\* the reset after the trial scrape, which restores the result set of
\* before the trial
C12_OrderStep ==
  /\ page_num' \in {page_num, page_num + 1}
  /\ loop_scrapes' # loop_scrapes =>
       loop_scrapes' = loop_scrapes + 1 /\ loop_scrapes' = page_num
  /\ \/ IsPrefix(data, data') /\ (pc = "scrape_rows" => Len(data') <= Len(data) + 1)
     \/ /\ pc = "trial_check" /\ in_trial /\ test_scrape > 0
        /\ data' = data_pre
        /\ IsPrefix(data', data)

\* C12 (amended): the page loop processes every page at most once and in
\* increasing order, and records are appended in page order and row
\* order and never moved; when click_detailed_view fails, the current
\* page is scraped once more before the loop, and the records of that
\* trial scrape are removed from the result set before the loop scrapes
\* the page again
C12_ForwardOnlyAfterTrial == []C12_PageInv /\ [][C12_OrderStep]_vars

\* the loop appended a record of page 1 again after the records of the
\* trial scrape of that page were removed
C12_Witness ==
  /\ trial_scrapes = 1 /\ test_scrape > 0 /\ ~in_trial
  /\ loop_scrapes = 1 /\ page_num = 1
  /\ Len(data) > Len(data_pre)

\* C13 (state part): a row that is complete and carries an unseen code
\* has given a record, which is the last of the result set
C13_ValidRowInv ==
  last_valid =>
    /\ last_kind = "record"
    /\ new_records > 0
    /\ data # <<>>
    /\ data[Len(data)].code \in scraped_codes

\* C13 (step part): whatever the rows before it gave, the row loop takes
\* the next row of the page, and a row that is complete and carries an
\* unseen code adds one record at the end of the result set
C13_RowStep ==
  /\ (pc = "scrape_rows" /\ rows_left > 0) =>
       pc' = "scrape_rows" /\ rows_left' = rows_left - 1
  /\ (rows_left' < rows_left /\ last_valid') =>
       /\ Len(data') = Len(data) + 1
       /\ IsPrefix(data, data')
       /\ data'[Len(data')].code \notin scraped_codes
       /\ new_records' = new_records + 1

\* C13 (as stated): failed and skipped rows keep no valid row of the page
\* from being appended, and every page scrape is followed by save_data
C13_RowFailuresLocal ==
  /\ []C13_ValidRowInv
  /\ [][/\ C13_RowStep
        /\ (pc = "scrape_rows" /\ rows_left = 0) => pc' = "save"]_vars

\* C13 (amended): failed and skipped rows keep no valid row of the page
\* from being appended, and the page scrape completes; a scrape of the
\* page loop is followed by save_data with the records of the valid rows
\* in the result set, the trial scrape after a failed
\* click_detailed_view by the test of its count
C13_RowFailuresLocalInLoop ==
  /\ []C13_ValidRowInv
  /\ [][/\ C13_RowStep
        /\ (pc = "scrape_rows" /\ rows_left = 0) =>
             /\ pc' = IF in_trial THEN "trial_check" ELSE "save"
             /\ data' = data]_vars

\* in the page loop a complete row with an unseen code gave a record
\* after another row of the same page gave none
C13_Witness ==
  /\ pc = "scrape_rows" /\ ~in_trial
  /\ page_fails
  /\ last_valid /\ last_kind = "record"
  /\ rows_left = 0

\* C16 (as stated): the records that the file held when the crawl started
\* stay in the file, unchanged and at its beginning, whatever the crawl
\* writes
C16_PersistedAppendOnly ==
  (IsList(file0) /\ file0.recs # <<>>) =>
    IsList(file) /\ IsPrefix(file0.recs, file.recs)

\* C14 (as stated): the records from which a scraper fills
\* self.scraped_codes, and the records of its file, are all of its own
\* score type
C14_ScoreTypeIsolation ==
  /\ \A i \in DOMAIN data_loaded : data_loaded[i].score_type = score_type
  /\ IsList(file) =>
       \A i, j \in DOMAIN file.recs :
         file.recs[i].score_type = file.recs[j].score_type

\* C15 (as stated): in a run with --all-types the scraper of every score
\* type is started, however the one before it ended
C15_BatchContinues ==
  pc \in {"crashed", "done"} => (pc = "done" /\ ENABLED StartNextCrawl) \/ queue = <<>>

\* the arguments that process_entry hands to normalize_quota_status
raw == Get(entry, "quota_status", <<>>)
max_rank == Get(entry, "max_rank", <<>>)
total_quota == Get(entry, "total_quota", <<>>)
filled_quota == Get(entry, "filled_quota", <<>>)

\* the text before the first '+' of a slot
Leading(s) == Split(s, "+")[1]

\* rules (1) and (2) of the decision procedure apply
Rule1 == EndsWith(raw, "#")
Rule2 == raw = <<>> /\ max_rank # <<>> /\ max_rank[1] = Dolmadi

\* the outcome of rules (3) and (4) when both first slots exist
NumericRule ==
  IF IsInt(Leading(total_quota[1])) /\ IsInt(Leading(filled_quota[1]))
  THEN IF IntVal(Leading(filled_quota[1])) >= IntVal(Leading(total_quota[1]))
       THEN Doldu ELSE Dolmadi
  ELSE Doldu

\* C17 (as stated): the normalized quota_status is the result of the
\* first rule that applies; rule (3) gives "Doldu" whenever quota_status
\* is empty and filled_quota[0] starts with "Doldu"
C17_DecisionProcedure ==
  processed # NoEntry =>
    processed["quota_status"] =
      IF Rule1 THEN RStrip(raw, "#")
      ELSE IF Rule2 THEN Dolmadi
      ELSE IF raw = <<>> /\ filled_quota # <<>>
              /\ StartsWith(filled_quota[1], Doldu) THEN Doldu
      ELSE IF raw = <<>> /\ total_quota # <<>> /\ filled_quota # <<>>
           THEN NumericRule
      ELSE raw

\* C17 (amended): as stated, with rules (3) and (4) applying only when
\* total_quota and filled_quota both have a first slot; rule (1) removes
\* every trailing '#'
C17_DecisionProcedureGuarded ==
  processed # NoEntry =>
    processed["quota_status"] =
      IF Rule1 THEN RStrip(raw, "#")
      ELSE IF Rule2 THEN Dolmadi
      ELSE IF raw = <<>> /\ total_quota # <<>> /\ filled_quota # <<>>
           THEN IF StartsWith(filled_quota[1], Doldu) THEN Doldu
                ELSE NumericRule
      ELSE raw

\* an entry with an empty quota_status, no slot in total_quota and a
\* filled_quota that starts with "Doldu" kept its empty quota_status
C17_Witness ==
  /\ processed # NoEntry
  /\ raw = <<>> /\ ~Rule2
  /\ total_quota = <<>>
  /\ filled_quota # <<>> /\ StartsWith(filled_quota[1], Doldu)
  /\ processed["quota_status"] = <<>>

\* C18 (as stated): an empty quota_status is always replaced by "Doldu"
\* or "Dolmadi"
C18_NeverEmpty ==
  (processed # NoEntry /\ raw = <<>>) =>
    processed["quota_status"] \in {Doldu, Dolmadi}

\* C18 (amended): an empty quota_status is replaced by "Doldu" or
\* "Dolmadi" when max_rank[0] is "Dolmadi" or total_quota and filled_quota
\* both have a first slot, and stays empty otherwise
C18_NeverEmptyWithSlots ==
  (processed # NoEntry /\ raw = <<>>) =>
    IF Rule2 \/ (total_quota # <<>> /\ filled_quota # <<>>)
    THEN processed["quota_status"] \in {Doldu, Dolmadi}
    ELSE processed["quota_status"] = <<>>

\* an empty quota_status with an empty first slot of total_quota became
\* "Doldu"
C18_Witness ==
  /\ processed # NoEntry
  /\ raw = <<>> /\ ~Rule2
  /\ total_quota # <<>> /\ total_quota[1] = <<>>
  /\ filled_quota # <<>> /\ ~StartsWith(filled_quota[1], Doldu)
  /\ processed["quota_status"] = Doldu

\* the attribute list handed to normalize_attributes
attributes == Get(entry, "attributes", <<>>)

\* the positions of the parentheses of token t
Parens(t) == {k \in 1..Len(t) : t[k] \in {"(", ")"}}

\* token t has the form A ')' B '(' C or A ')' B '(' C ')' with A, B and C
\* free of parentheses, its ')' at position i and its '(' at position j
HasForm(t, i, j) ==
  /\ i < j /\ t[i] = ")" /\ t[j] = "("
  /\ \/ Parens(t) = {i, j}
     \/ j < Len(t) /\ t[Len(t)] = ")" /\ Parens(t) = {i, j, Len(t)}
IsCompound(t) == \E i, j \in 1..Len(t) : HasForm(t, i, j)

\* the trimmed non-empty parts among A, B and C of such a token
CompoundParts(t) ==
  LET i == CHOOSE k \in 1..Len(t) : \E j \in 1..Len(t) : HasForm(t, k, j)
      j == CHOOSE k \in 1..Len(t) : HasForm(t, i, k)
      e == IF t[Len(t)] = ")" THEN Len(t) - 1 ELSE Len(t)
  IN SelectSeq(<<Strip(SubSeq(t, 1, i - 1)), Strip(SubSeq(t, i + 1, j - 1)),
                 Strip(SubSeq(t, j + 1, e))>>,
               LAMBDA s : s # <<>>)

\* what the tokens of list ts are replaced by, one after the other; for a
\* token with both parentheses that is not of the form nothing is required
RECURSIVE Resplit(_)
Resplit(ts) ==
  IF ts = <<>> THEN <<>>
  ELSE (IF IsCompound(Head(ts)) THEN CompoundParts(Head(ts))
        ELSE IF Has(Head(ts), ")") /\ Has(Head(ts), "(")
             THEN NormalizeToken(Head(ts))
        ELSE <<Head(ts)>>)
       \o Resplit(Tail(ts))

\* C19: every token of the form A ')' B '(' C with an optional trailing
\* ')' is replaced at its position by the trimmed non-empty parts among A,
\* B and C in that order, a token without both parentheses is kept
\* unchanged, and the order of the tokens is kept
C19_AttributeResplit ==
  (processed # NoEntry /\ "attributes" \in DOMAIN entry) =>
    processed["attributes"] = Resplit(attributes)

\* a token of the form that follows a token without parentheses was
\* replaced by its three parts behind that token
C19_Witness ==
  /\ processed # NoEntry
  /\ Len(attributes) = 2
  /\ attributes[1] = PlainToken
  /\ IsCompound(attributes[2])
  /\ Len(processed["attributes"]) = 4
  /\ processed["attributes"][1] = PlainToken
  /\ processed["attributes"][2] # processed["attributes"][3]

\* C20 (as stated): the output of process_entry has the fields of the
\* input, those other than quota_status and attributes with the same
\* value, and the input is left as it was
C20_Frame ==
  /\ [](processed # NoEntry =>
          /\ DOMAIN processed = DOMAIN entry
          /\ \A k \in DOMAIN entry \ {"quota_status", "attributes"} :
               processed[k] = entry[k])
  /\ [][entry' = entry]_vars

\* C20 (amended): the output of process_entry has the fields of the input
\* and quota_status, which is added when the input lacks it; the fields
\* other than quota_status and attributes have the same value, attributes
\* is not added, and the input is left as it was
C20_FrameWithStatus ==
  /\ [](processed # NoEntry =>
          /\ DOMAIN processed = DOMAIN entry \cup {"quota_status"}
          /\ \A k \in DOMAIN entry \ {"quota_status", "attributes"} :
               processed[k] = entry[k])
  /\ [][entry' = entry]_vars

\* an entry without quota_status and without attributes was processed:
\* the output has quota_status and no attributes
C20_Witness ==
  /\ processed # NoEntry
  /\ "quota_status" \notin DOMAIN entry
  /\ "attributes" \notin DOMAIN entry
  /\ "quota_status" \in DOMAIN processed
  /\ "attributes" \notin DOMAIN processed
  /\ processed["university_name"] = <<" ", "a">>

\* the keys of the slots as the claim orders them
SlotKeys ==
  IF score_type = "tyt" THEN <<"red", "blue">>
  ELSE <<"red", "purple", "blue", "green">>

\* the positions of the spans of the cell whose colour is key k
SpansOf(k) == {i \in 1..Len(cell) : cell[i].color = k}

\* C21: extract_colored_values returns 4 slots (red, purple, blue, green)
\* for the general variant and 2 (red, blue) for the reduced one; slot i
\* is the value of the first span with the i-th key, the empty string when
\* the cell has no such span
C21_SlotCount ==
  slots # NoSlots =>
    /\ Len(slots) = IF score_type = "tyt" THEN 2 ELSE 4
    /\ \A i \in 1..Len(SlotKeys) :
         IF SpansOf(SlotKeys[i]) = {} THEN slots[i] = <<>>
         ELSE LET first == CHOOSE p \in SpansOf(SlotKeys[i]) :
                             \A q \in SpansOf(SlotKeys[i]) : p <= q
              IN slots[i] = CleanText(cell[first].text)

\* a cell of the general variant whose only keyed span is blue gave four
\* slots with the value in the third
C21_Witness ==
  /\ slots # NoSlots
  /\ score_type = "say"
  /\ cell # <<>>
  /\ SpansOf("red") = {} /\ SpansOf("purple") = {} /\ SpansOf("green") = {}
  /\ SpansOf("blue") # {}
  /\ slots[1] = <<>> /\ slots[2] = <<>> /\ slots[4] = <<>>
  /\ slots[3] = <<"8">>

C23_RecordOrSkip ==
  (Len(outcomes) >= 1 /\ given_row.fail = "none") =>
    (outcomes[1].kind = "record" <=>
       /\ given_row.ncells >= (IF score_type = "tyt" THEN 11 ELSE 12)
       /\ given_row.code # NoCode
       /\ given_row.code \notin CodesOf(data_loaded))

(* C24: the dataset written by the normalizer is the concatenation of the
   partitions: one normalized record per record of a partition, in the
   partition's order, and a partition contributes all of its records or
   none. *)
\* the normalized records of all the entries of file content f
AllOf(f) ==
  IF f = Unloadable THEN <<>> ELSE [i \in 1..Len(f) |-> process_entry(f[i])]

\* the concatenation, in the files' order, of the files of S
RECURSIVE ConcatOf(_, _)
ConcatOf(S, i) ==
  IF i > Len(json_files) THEN <<>>
  ELSE (IF i \in S THEN AllOf(json_files[i]) ELSE <<>>) \o ConcatOf(S, i + 1)

C24_Concatenation ==
  fpc = "written" =>
    \E S \in SUBSET (1..Len(json_files)) : data_json = ListFile(ConcatOf(S, 1))

(* C25: termination. On a document with finitely many pages every crawl
   run eventually reaches a terminal state in which the browser is not
   running, whatever configuration, row and navigation failures occur. *)
Terminal == pc \in {"done", "crashed"}

C25_Termination == <>(Terminal /\ driver # "open")

\* a run that went to a second page and ended although a row failed, the
\* detailed view was not reached and the last navigation check raised
C25_Witness ==
  /\ pc = "done"
  /\ driver = "quit"
  /\ page_num = MaxPages
  /\ view_success = "false"
  /\ has_outcome = "error"

(* C26: seen-set consistency. After the construction of the scraper, after
   each row processed by scrape_current_page and after the roll-back of
   the trial scrape, self.scraped_codes is exactly the set of the codes of
   the records of self.data. *)
C26_SeenSetConsistent == scraped_codes = CodesOf(data)

\* a row gave a new record in the page loop that follows a roll-back, on
\* top of records loaded from the file
C26_Witness ==
  /\ pc = "scrape_rows"
  /\ ~in_trial
  /\ trial_scrapes = 1
  /\ test_scrape > 0
  /\ new_records > 0
  /\ data_loaded # <<>>

(* C27: trial-scrape roll-back. After a failed view configuration, a trial
   scrape with at least one new record is followed by a roll-back that
   sets self.data and self.scraped_codes to their values before the trial
   scrape, with nothing saved in between; a trial scrape with no new
   record ends the run with no call of save_data. *)
C27_NoSaveInTrial ==
  /\ in_trial => nsaves = 0 /\ file = file0
  /\ pc = "trial_check" => view_success = "false" /\ test_scrape = new_records
  /\ exit = "degraded_stop" => nsaves = 0 /\ file = file0 /\ test_scrape = 0

C27_TrialStep ==
  pc = "trial_check" =>
    IF test_scrape > 0
    THEN /\ Len(data) = Len(data_pre) + test_scrape
         /\ data' = data_pre
         /\ scraped_codes' = codes_pre
         /\ nsaves' = 0 /\ file' = file0
         /\ pc' = "scrape_start"
    ELSE /\ pc' = "finally"
         /\ data' = data_pre
         /\ nsaves' = 0 /\ file' = file0

C27_RollBack == []C27_NoSaveInTrial /\ [][C27_TrialStep]_vars

\* the roll-back has just discarded two trial records
C27_Witness ==
  /\ pc = "scrape_start"
  /\ view_success = "false"
  /\ ~in_trial
  /\ test_scrape = 2
  /\ loop_scrapes = 0
  /\ data = data_pre
  /\ scraped_codes = codes_pre

(* C28: normalization is idempotent: process_entry of the result of
   process_entry is that result, for the quota_status rewrite, also of a
   quota_status made of '#' only, and for the re-split of attributes. *)
C28_Idempotent == reprocessed # NoEntry => reprocessed = processed

\* quota_status is not empty and made of '#' only
MarkerOnly == raw # <<>> /\ RStrip(raw, "#") = <<>>

\* what the rules for an empty quota_status give for the entry's lists
EmptyStatusRules ==
  IF max_rank # <<>> /\ max_rank[1] = Dolmadi THEN Dolmadi
  ELSE IF total_quota # <<>> /\ filled_quota # <<>>
       THEN IF StartsWith(filled_quota[1], Doldu) THEN Doldu ELSE NumericRule
  ELSE <<>>

\* C28 (amended): process_entry of the result of process_entry is that
\* result, unless quota_status is made of '#' only: the first call then
\* leaves an empty quota_status, which the second call replaces as the
\* rules for an empty quota_status say; attributes and every other field
\* are the same after the second call
C28_IdempotentButMarkerOnly ==
  reprocessed # NoEntry =>
    /\ DOMAIN reprocessed = DOMAIN processed
    /\ \A k \in DOMAIN processed \ {"quota_status"} :
         reprocessed[k] = processed[k]
    /\ reprocessed["quota_status"] =
         IF MarkerOnly THEN EmptyStatusRules ELSE processed["quota_status"]

\* a quota_status of '#' only became empty and then "Doldu", beside a
\* filled_quota that is not below total_quota
C28_Witness ==
  /\ reprocessed # NoEntry
  /\ MarkerOnly
  /\ total_quota # <<>> /\ filled_quota # <<>>
  /\ processed["quota_status"] = <<>>
  /\ reprocessed["quota_status"] = Doldu
====
